---- MODULE Spec2Model ----
(***************************************************************************)
(* Feature/label computation of the stock-out predictor                   *)
(* (predictor/feature_engineer.py, predictor/data_loader.py,              *)
(* predictor/export_features.py), the batch exporter that reads a file     *)
(* (predictor/file_export_features.py) and the stand-alone export script   *)
(* (export_features.py), and the prediction server's message handler      *)
(* (predictor/serve_rabbitmq.py).  Spec is the database exporter, FileSpec *)
(* the file exporter with its pool of workers, LegacySpec repeated runs of *)
(* the stand-alone script, CfgSpec the database exporter under any         *)
(* FeatureConfig and date range, MqSpec the handling of deliveries.        *)
(*                                                                         *)
(* Dates are day numbers.  Timestamps are ticks: a day has TicksPerDay     *)
(* ticks and tick d * TicksPerDay is midnight of day d, so a timestamp     *)
(* with a time of day is a tick that is not a multiple of TicksPerDay.     *)
(* A float is kept as a fraction <<numerator, denominator>>.               *)
(* A DataFrame is the set of its rows.  Inventory rows are unique in       *)
(* (variantId, updatedAt).                                                 *)
(***************************************************************************)
EXTENDS Integers, Sequences, FiniteSets, TLC

(* ------------------------- program constants --------------------------- *)
window7d == 7
window14d == 14
window30d == 30
paddingDays == 29
labelHorizonDays == 14
defaultDaysSinceRestock == 365
reviewHistoryDays == 365
reviewFutureDays == 30

(* ------------------------------ bounds --------------------------------- *)
NumSnapshots == 16
TicksPerDay == 2
MaxStatRows == 2
MaxInvRows == 2
MaxReviewRows == 2
startDate == 400

endDate == startDate + NumSnapshots - 1

(* ------------------------------ helpers -------------------------------- *)
Midnight(d) == d * TicksPerDay
DateOf(ts) == ts \div TicksPerDay

Max(a, b) == IF a >= b THEN a ELSE b
Min(a, b) == IF a <= b THEN a ELSE b

RECURSIVE SumFn(_, _)
SumFn(f, S) ==
  IF S = {} THEN 0
  ELSE LET x == CHOOSE y \in S : TRUE IN f[x] + SumFn(f, S \ {x})

Column(df, c) == [i \in DOMAIN df |-> df[i][c]]

None == [has |-> FALSE, ts |-> 0]
Some(t) == [has |-> TRUE, ts |-> t]

(* pd.date_range(start, end, freq='D') *)
(* mutant: the axis begins one day late *)
date_range_from_next_day(s, e) == [i \in 1..(e - s + 1) |-> s + i]

(* pd.date_range(start=s, end=e, freq='D'): every day from s to e inclusive *)
date_range(s, e) == [i \in 1..(e - s + 1) |-> s + i - 1]

getDateRangeWithPadding(start, end, pad) == <<start - pad, end>>

(* A call either returns a value or raises an exception.                   *)
Returned(v) == [raised |-> "", value |-> v]
Raised(e) == [raised |-> e, value |-> <<>>]

(* ------------------- FeatureEngineer.buildTimeseriesTable -------------- *)
ZeroStat == [views |-> 0, purchases |-> 0, addToCarts |-> 0]

(* set_index('date').reindex(dateIndex, fill_value=0): pandas refuses to    *)
(* reindex an axis with duplicate labels (ValueError).                      *)
reindex(stats, dateIndex) ==
  IF \E r1, r2 \in stats : r1 # r2 /\ r1.date = r2.date
  THEN Raised("ValueError")
  ELSE Returned([i \in DOMAIN dateIndex |->
                   LET hit == {r \in stats : r.date = dateIndex[i]}
                   IN IF hit = {} THEN ZeroStat
                      ELSE LET r == CHOOSE x \in hit : TRUE
                           IN [views |-> r.views, purchases |-> r.purchases,
                               addToCarts |-> r.addToCarts]])

buildTimeseriesTable(stats, dateIndex) ==
  IF stats = {} THEN Returned([i \in DOMAIN dateIndex |-> ZeroStat])
  ELSE reindex(stats, dateIndex)

(* ------------------- FeatureEngineer.computeRollingWindows ------------- *)
(* Series.rolling(window=W, min_periods=1).sum(): the sliding sum adds the *)
(* entering observation and removes the one that leaves the window.        *)
RECURSIVE roll_sum_upto(_, _, _)
roll_sum_upto(xs, W, i) ==
  IF i = 0 THEN <<>>
  ELSE LET prev == roll_sum_upto(xs, W, i - 1)
           carried == IF i = 1 THEN 0 ELSE prev[i - 1]
           leaving == IF i > W THEN xs[i - W] ELSE 0
       IN Append(prev, carried + xs[i] - leaving)

(* mutant: the window is one day too long *)
roll_sum_long_window(xs, W) == roll_sum_upto(xs, W + 1, Len(xs))

roll_sum(xs, W) == roll_sum_upto(xs, W, Len(xs))

rolling(ts, W) ==
  LET v == roll_sum(Column(ts, "views"), W)
      p == roll_sum(Column(ts, "purchases"), W)
      a == roll_sum(Column(ts, "addToCarts"), W)
  IN [i \in DOMAIN ts |-> [views |-> v[i], purchases |-> p[i], addToCarts |-> a[i]]]

computeRollingWindows(ts) ==
  [w7d |-> rolling(ts, window7d),
   w14d |-> rolling(ts, window14d),
   w30d |-> rolling(ts, window30d)]

(* ------------------- FeatureEngineer.computeInventoryByDate ------------ *)
RECURSIVE sort_values(_)
sort_values(rows) ==
  IF rows = {} THEN <<>>
  ELSE LET m == CHOOSE r \in rows : \A o \in rows : r.updatedAt <= o.updatedAt
       IN <<m>> \o sort_values(rows \ {m})

RECURSIVE drop_duplicates(_)
drop_duplicates(rows) ==
  IF Len(rows) <= 1 THEN rows
  ELSE LET init == drop_duplicates(SubSeq(rows, 1, Len(rows) - 1))
           last == rows[Len(rows)]
       IN IF \E k \in DOMAIN init : init[k].updatedAt = last.updatedAt
          THEN init ELSE Append(init, last)

(* pd.merge_asof(direction='backward'): two-pointer scan; the right pointer *)
(* advances while the next right key is <= the left key.  0 = no match.     *)
(* mutant: exact matches are not allowed (strict comparison) *)
RECURSIVE asof_advance_strict(_, _, _)
asof_advance_strict(right, j, t) ==
  IF j < Len(right) /\ right[j + 1].updatedAt < t
  THEN asof_advance_strict(right, j + 1, t) ELSE j

RECURSIVE asof_advance(_, _, _)
asof_advance(right, j, t) ==
  IF j < Len(right) /\ right[j + 1].updatedAt <= t
  THEN asof_advance(right, j + 1, t) ELSE j

RECURSIVE asof_join_backward(_, _, _, _)
asof_join_backward(left, right, i, j) ==
  IF i > Len(left) THEN <<>>
  ELSE LET j2 == asof_advance(right, j, left[i])
       IN <<j2>> \o asof_join_backward(left, right, i + 1, j2)

merge_asof(left, right) ==
  LET pos == asof_join_backward(left, right, 1, 0)
  IN [i \in DOMAIN left |-> IF pos[i] = 0 THEN 0 ELSE right[pos[i]].quantity]

RECURSIVE addVariants(_, _, _)
addVariants(invSub, vs, snapshotTs) ==
  IF vs = {} THEN [i \in DOMAIN snapshotTs |-> 0]
  ELSE LET variantId == CHOOSE v \in vs : TRUE
           variantRows == drop_duplicates(
                            sort_values({r \in invSub : r.variantId = variantId}))
           merged == merge_asof(snapshotTs, variantRows)
           rest == addVariants(invSub, vs \ {variantId}, snapshotTs)
       IN [i \in DOMAIN snapshotTs |-> rest[i] + merged[i]]

(* NaT is the timestamp pandas gives an unparseable date (errors='coerce'). *)
NaT == -1

(* pd.merge_asof requires sorted, non-null keys: a NaT among the right keys *)
(* raises ValueError.                                                       *)
merge_asof_raises(invDf, variantIds) ==
  \E r \in invDf : r.variantId \in variantIds /\ r.updatedAt = NaT

computeInventoryByDate(invDf, variantIds, dateIndex) ==
  LET zeros == [i \in DOMAIN dateIndex |-> 0]
      invSub == {r \in invDf : r.variantId \in variantIds}
      snapshotTs == [i \in DOMAIN dateIndex |-> Midnight(dateIndex[i])]
  IN IF invDf = {} \/ variantIds = {} THEN zeros
     ELSE IF invSub = {} THEN zeros
     ELSE addVariants(invSub, {r.variantId : r \in invSub}, snapshotTs)

(* ------------------- FeatureEngineer.computeReviewsCumulative ---------- *)
RECURSIVE cumsum_upto(_, _)
cumsum_upto(xs, i) ==
  IF i = 0 THEN <<>>
  ELSE LET prev == cumsum_upto(xs, i - 1)
       IN Append(prev, (IF i = 1 THEN 0 ELSE prev[i - 1]) + xs[i])

(* mutant: the per-date aggregates are not accumulated *)
cumsum_missing(xs) == xs

cumsum(xs) == cumsum_upto(xs, Len(xs))

computeReviewsCumulative(reviewsDf, productId, dateIndex) ==
  IF reviewsDf = {} \/ productId \notin {r.productId : r \in reviewsDf}
  THEN [count |-> [i \in DOMAIN dateIndex |-> 0],
        avg |-> [i \in DOMAIN dateIndex |-> <<0, 1>>]]
  ELSE LET reviews == {r \in reviewsDf : r.productId = productId}
           onDate(d) == {r \in reviews : DateOf(r.createdAt) = d}
           aggCount == [i \in DOMAIN dateIndex |-> Cardinality(onDate(dateIndex[i]))]
           aggSum == [i \in DOMAIN dateIndex |->
                        SumFn([r \in reviews |-> r.rating], onDate(dateIndex[i]))]
           cumulativeCount == cumsum(aggCount)
           cumulativeSum == cumsum(aggSum)
       IN [count |-> cumulativeCount,
           avg |-> [i \in DOMAIN dateIndex |->
                      IF cumulativeCount[i] = 0 THEN <<0, 1>>
                      ELSE <<cumulativeSum[i], cumulativeCount[i]>>]]

(* ------------------- FeatureEngineer.buildFeatureRow ------------------- *)
(* mutant: the quotient is taken whatever the denominator *)
guardedRatio_unguarded(num, den) == <<num, den>>

(* lines 164-165: "num / den if den > 0 else 0.0" *)
guardedRatio(num, den) == IF den > 0 THEN <<num, den>> ELSE <<0, 1>>

(* dateIndex is the 0-based calendar position, as in the source.           *)
buildFeatureRow(productId, storeId, snapshotDate, dateIndex, rollingWindows, storeTs, inventoryByDate, reviewsCount, reviewsAvg, lastRestockDate) ==
  LET ro7 == rollingWindows.w7d[dateIndex + 1]
      ro14 == rollingWindows.w14d[dateIndex + 1]
      ro30 == rollingWindows.w30d[dateIndex + 1]
      sales7d == ro7.purchases
      sales30d == ro30.purchases
      views7d == ro7.views
  IN [productId |-> productId,
      storeId |-> storeId,
      snapshotDate |-> snapshotDate,
      sales7d |-> sales7d,
      sales14d |-> ro14.purchases,
      sales30d |-> sales30d,
      salesRatio7To30 |-> guardedRatio(sales7d, sales30d),
      views7d |-> views7d,
      views30d |-> ro30.views,
      addToCarts7d |-> ro7.addToCarts,
      viewToPurchase7d |-> guardedRatio(sales7d, views7d),
      avgRating |-> reviewsAvg[dateIndex + 1],
      ratingCount |-> reviewsCount[dateIndex + 1],
      inventoryQty |-> inventoryByDate[dateIndex + 1],
      daysSinceRestock |->
        IF lastRestockDate.has /\ lastRestockDate.ts <= Midnight(snapshotDate)
        THEN snapshotDate - DateOf(lastRestockDate.ts)
        ELSE defaultDaysSinceRestock,
      storeViews7d |-> IF storeTs # <<>> THEN storeTs[dateIndex + 1].views ELSE 0,
      storePurchases7d |-> IF storeTs # <<>> THEN storeTs[dateIndex + 1].purchases ELSE 0]

(* ------------------- FeatureEngineer.computeLabel ---------------------- *)
(* mutant: the forward window starts on the snapshot date itself *)
computeLabel_from_snapshot_day(productId, snapshotDate, inventoryQty, productStatsDf) ==
  LET sel == {r \in productStatsDf :
                /\ r.productId = productId
                /\ r.date >= snapshotDate
                /\ r.date <= snapshotDate + labelHorizonDays}
      futureSales == SumFn([r \in productStatsDf |-> r.purchases], sel)
  IN [futureSales14d |-> futureSales,
      stockout14d |-> IF futureSales > inventoryQty THEN 1 ELSE 0]

computeLabel(productId, snapshotDate, inventoryQty, productStatsDf) ==
  LET futureStart == snapshotDate + 1
      futureEnd == snapshotDate + labelHorizonDays
      sel == {r \in productStatsDf :
                /\ r.productId = productId
                /\ r.date >= futureStart
                /\ r.date <= futureEnd}
      futureSales == SumFn([r \in productStatsDf |-> r.purchases], sel)
  IN [futureSales14d |-> futureSales,
      stockout14d |-> IF futureSales > inventoryQty THEN 1 ELSE 0]

(* ------------------------- DataLoader queries -------------------------- *)
loadProducts(tbl, productIds) ==
  SelectSeq(tbl, LAMBDA r : r.id \in productIds)

loadProductDailyStats(tbl, start, end, productIds) ==
  {r \in tbl : r.date >= start /\ r.date <= end /\ r.productId \in productIds}

loadStoreDailyStats(tbl, start, end, storeIds) ==
  {r \in tbl : r.date >= start /\ r.date <= end /\ r.storeId \in storeIds}

loadVariants(tbl, productIds) == {r \in tbl : r.productId \in productIds}

loadInventory(tbl, variantIds) == {r \in tbl : r.variantId \in variantIds}

loadReviews(tbl, start, end, productIds) ==
  {r \in tbl : /\ r.createdAt >= Midnight(start - reviewHistoryDays)
               /\ r.createdAt <= Midnight(end + reviewFutureDays)
               /\ r.productId \in productIds}

(* ------------------- FeatureExporter._buildProductFeatures ------------- *)
NoStore == ""

MaxOf(S) == CHOOSE m \in S : \A o \in S : o <= m

buildRows(productId, storeId, snapshotDates, dateIndex, rollingWindows, storeTs, inventoryByDate, reviews, lastRestockDate, productStats) ==
  LET rowAt(k) ==
        LET snapshotDate == snapshotDates[k]
            dateIdx == snapshotDate - dateIndex[1]
        IN IF dateIdx < 0 \/ dateIdx >= Len(dateIndex) THEN <<>>
           ELSE LET featureRow == buildFeatureRow(productId, storeId, snapshotDate,
                                    dateIdx, rollingWindows, storeTs,
                                    inventoryByDate, reviews.count, reviews.avg,
                                    lastRestockDate)
                    label == computeLabel(productId, snapshotDate,
                                          featureRow.inventoryQty, productStats)
                IN <<featureRow @@ label>>
      RECURSIVE upto(_)
      upto(k) == IF k = 0 THEN <<>> ELSE upto(k - 1) \o rowAt(k)
  IN upto(Len(snapshotDates))

(* mutant: the calendar starts on the first snapshot date (no lead-in) *)
calendarStart_unpadded(snapshotDates) == snapshotDates[1]

calendarStart(snapshotDates) == snapshotDates[1] - paddingDays

_buildProductFeaturesBody(productId, storeId, snapshotDates, dateIndex, ts, storeTs, productStats, variants, inventory, reviews) ==
  LET variantIds == {r.id : r \in {v \in variants : v.productId = productId}}
      inventoryByDate == computeInventoryByDate(inventory, variantIds, dateIndex)
      cumulative == computeReviewsCumulative(reviews, productId, dateIndex)
      rollingWindows == computeRollingWindows(ts)
      inventorySubset == {r \in inventory : r.variantId \in variantIds}
      lastRestockDate == IF inventorySubset # {}
                         THEN Some(MaxOf({r.updatedAt : r \in inventorySubset}))
                         ELSE None
  IN IF merge_asof_raises(inventory, variantIds) THEN Raised("ValueError")
     ELSE Returned(
       [productId |-> productId,
        dateIndex |-> dateIndex,
        ts |-> ts,
        variantIds |-> variantIds,
        inventoryByDate |-> inventoryByDate,
        reviewsCount |-> cumulative.count,
        reviewsAvg |-> cumulative.avg,
        rollingWindows |-> rollingWindows,
        lastRestockDate |-> lastRestockDate,
        rows |-> buildRows(productId, storeId, snapshotDates, dateIndex,
                           rollingWindows, storeTs, inventoryByDate, cumulative,
                           lastRestockDate, productStats)])

_buildProductFeatures(productId, storeId, snapshotDates, productStats, storeStats, variants, inventory, reviews) ==
  LET paddedStart == calendarStart(snapshotDates)
      dateIndex == date_range(paddedStart, snapshotDates[Len(snapshotDates)])
      prodStatsSubset == {r \in productStats : r.productId = productId}
      ts == buildTimeseriesTable(prodStatsSubset, dateIndex)
      storeTs == IF storeId # NoStore
                 THEN buildTimeseriesTable({r \in storeStats : r.storeId = storeId},
                                           dateIndex)
                 ELSE Returned(<<>>)
  IN IF ts.raised # "" THEN ts
     ELSE IF storeTs.raised # "" THEN storeTs
     ELSE _buildProductFeaturesBody(productId, storeId, snapshotDates, dateIndex,
                                    ts.value, storeTs.value, productStats, variants,
                                    inventory, reviews)

(* ------------------- the exporter under a given FeatureConfig ---------- *)
(* FeatureConfig is a dataclass: any field values are accepted, and        *)
(* __post_init__ only fills featureColumns.                                *)
FeatureConfig(w7, w14, w30, pad) == [window7d |-> w7, window14d |-> w14, window30d |-> w30, paddingDays |-> pad]

DefaultConfig == FeatureConfig(window7d, window14d, window30d, paddingDays)

(* DataFrame.rolling(window=W, min_periods=1): pandas raises ValueError for *)
(* W < 0 ("window must be an integer 0 or greater") and for W = 0          *)
(* ("min_periods 1 must be <= window 0")                                    *)
computeRollingWindowsUnder(cfg, ts) ==
  IF cfg.window7d <= 0 \/ cfg.window14d <= 0 \/ cfg.window30d <= 0
  THEN Raised("ValueError")
  ELSE Returned([w7d |-> rolling(ts, cfg.window7d),
                 w14d |-> rolling(ts, cfg.window14d),
                 w30d |-> rolling(ts, cfg.window30d)])

(* _buildProductFeatures with featureConfig = cfg; snapshotDates[0] of an   *)
(* empty list raises IndexError, and so does dateIndex[0] (line 251) when   *)
(* the calendar is empty                                                    *)
_buildProductFeaturesUnder(cfg, productId, storeId, snapshotDates, productStats, storeStats, variants, inventory, reviews) ==
  IF snapshotDates = <<>> THEN Raised("IndexError")
  ELSE
  LET paddedStart == snapshotDates[1] - cfg.paddingDays
      dateIndex == date_range(paddedStart, snapshotDates[Len(snapshotDates)])
      ts == buildTimeseriesTable({r \in productStats : r.productId = productId}, dateIndex)
      storeTs == IF storeId # NoStore
                 THEN buildTimeseriesTable({r \in storeStats : r.storeId = storeId},
                                           dateIndex)
                 ELSE Returned(<<>>)
      variantIds == {r.id : r \in {v \in variants : v.productId = productId}}
      inventorySubset == {r \in inventory : r.variantId \in variantIds}
      rollingWindows == computeRollingWindowsUnder(cfg, ts.value)
  IN IF ts.raised # "" THEN ts
     ELSE IF storeTs.raised # "" THEN storeTs
     ELSE IF merge_asof_raises(inventory, variantIds) THEN Raised("ValueError")
     ELSE IF rollingWindows.raised # "" THEN rollingWindows
     ELSE IF dateIndex = <<>> THEN Raised("IndexError")
     ELSE Returned(buildRows(productId, storeId, snapshotDates, dateIndex,
                             rollingWindows.value, storeTs.value,
                             computeInventoryByDate(inventory, variantIds, dateIndex),
                             computeReviewsCumulative(reviews, productId, dateIndex),
                             IF inventorySubset # {}
                             THEN Some(MaxOf({r.updatedAt : r \in inventorySubset}))
                             ELSE None,
                             productStats))

(* ------------------- FileFeatureExporter.exportFeatures: tables -------- *)
(* A row of the input file.  NaN is a missing cell.  Every derived row     *)
(* keeps the index of the file row it comes from, as a DataFrame does.     *)
NaN == ""

RawRow(inv, code, q, t, price, country) ==
  [InvoiceNo |-> inv, StockCode |-> code, Quantity |-> q, InvoiceDate |-> t,
   UnitPrice |-> price, Country |-> country]

normalize(t) == IF t = NaT THEN NaT ELSE Midnight(DateOf(t))

(* lines 417-433: rename, parse the dates, drop rows without product/store *)
prepareFrame(raw) ==
  LET df == [i \in DOMAIN raw |->
               [index |-> i, invoice_no |-> raw[i].InvoiceNo,
                quantity |-> raw[i].Quantity, invoice_date |-> raw[i].InvoiceDate,
                date |-> normalize(raw[i].InvoiceDate),
                unit_price |-> raw[i].UnitPrice,
                product_id |-> raw[i].StockCode, store_id |-> raw[i].Country]]
  IN SelectSeq(df, LAMBDA r : r.product_id # NaN /\ r.store_id # NaN)

FrameRows(df) == {df[i] : i \in DOMAIN df}

(* lines 439-450: groupby([product_id, store_id, date]); groups with a NaT *)
(* key are dropped by groupby                                              *)
fileProductStats(df) ==
  LET valid == {r \in FrameRows(df) : r.date # NaT}
      keys == {<<r.product_id, r.store_id, r.date>> : r \in valid}
  IN {LET g == {r \in valid : <<r.product_id, r.store_id, r.date>> = k}
      IN [productId |-> k[1], storeId |-> k[2], date |-> DateOf(k[3]),
          views |-> Cardinality({r.invoice_no : r \in g}),
          purchases |-> SumFn([r \in g |-> r.quantity], g),
          addToCarts |-> Cardinality({r.invoice_no : r \in g})] : k \in keys}

(* lines 452-464: groupby([store_id, date]) *)
fileStoreStats(df) ==
  LET valid == {r \in FrameRows(df) : r.date # NaT}
      keys == {<<r.store_id, r.date>> : r \in valid}
  IN {LET g == {r \in valid : <<r.store_id, r.date>> = k}
      IN [storeId |-> k[1], date |-> DateOf(k[2]),
          views |-> Cardinality({r.invoice_no : r \in g}),
          purchases |-> SumFn([r \in g |-> r.quantity], g),
          addToCarts |-> Cardinality({r.invoice_no : r \in g})] : k \in keys}

(* lines 466-470 *)
fileVariants(df) ==
  {[id |-> r.product_id, productId |-> r.product_id, price |-> r.unit_price] :
     r \in FrameRows(df)}

(* lines 472-478 *)
fileInventory(df) ==
  {[index |-> r.index, variantId |-> r.product_id, quantity |-> r.quantity,
    updatedAt |-> r.date] : r \in FrameRows(df)}

(* lines 480-487 *)
fileReviews(df) ==
  {[index |-> r.index, productId |-> r.product_id, createdAt |-> r.date,
    rating |-> 5] : r \in FrameRows(df)}

(* lines 490-497: drop_duplicates keeps the first occurrence, in file order *)
fileProducts(df, productIds) ==
  LET firstAt(i) == \A j \in 1..(i - 1) :
                      <<df[j].product_id, df[j].store_id>> #
                        <<df[i].product_id, df[i].store_id>>
      idx == SelectSeq([i \in DOMAIN df |-> i], firstAt)
      products == [k \in DOMAIN idx |->
                     [id |-> df[idx[k]].product_id, storeId |-> df[idx[k]].store_id]]
  IN IF productIds # {} THEN SelectSeq(products, LAMBDA r : r.id \in productIds)
     ELSE products

MinOf(S) == CHOOSE m \in S : \A o \in S : m <= o

(* lines 504-506: min()/max() skip NaT *)
fileSnapshotDates(df) ==
  LET days == {DateOf(r.date) : r \in {x \in FrameRows(df) : x.date # NaT}}
  IN date_range(MinOf(days), MaxOf(days))

(* mutant: only full batches are cut; a shorter last batch is dropped *)
makeBatches_full_only(productList, batchSize) == [b \in 1..(Len(productList) \div batchSize) |-> SubSeq(productList, (b - 1) * batchSize + 1, b * batchSize)]

(* lines 510-511 *)
makeBatches(productList, batchSize) ==
  LET n == Len(productList)
  IN [b \in 1..((n + batchSize - 1) \div batchSize) |->
        SubSeq(productList, (b - 1) * batchSize + 1, Min(b * batchSize, n))]

(* ------------------- BatchFeatureProcessor ----------------------------- *)
(* lines 308-309: np.divide(num, den, where=den > 0, out=zeros): the       *)
(* quotient where den > 0, the 0.0 of the out array elsewhere              *)
np_divide_where(num, den) == IF den > 0 THEN <<num, den>> ELSE <<0, 1>>

(* lines 262-389: one row per snapshot date found in the calendar *)
_buildFeatureRowsVectorized(productId, storeId, snapshotDates, dateIndex, rollingWindows, storeTs, inventoryByDate, reviews, lastRestockDate, prodStats) ==
  LET rowAt(k) ==
        LET snap_norm == snapshotDates[k]
            hit == {i \in DOMAIN dateIndex : dateIndex[i] = snap_norm}
        IN IF hit = {} THEN <<>>
           ELSE LET i == CHOOSE x \in hit : TRUE
                    sales7d == rollingWindows.w7d[i].purchases
                    sales30d == rollingWindows.w30d[i].purchases
                    views7d == rollingWindows.w7d[i].views
                    inventoryQty == inventoryByDate[i]
                    sel == {r \in prodStats : r.date >= snap_norm + 1
                                               /\ r.date <= snap_norm + labelHorizonDays}
                    future_sales == SumFn([r \in prodStats |-> r.purchases], sel)
                IN <<[productId |-> productId,
                      storeId |-> storeId,
                      snapshotDate |-> snap_norm,
                      sales7d |-> sales7d,
                      sales14d |-> rollingWindows.w14d[i].purchases,
                      sales30d |-> sales30d,
                      salesRatio7To30 |-> np_divide_where(sales7d, sales30d),
                      views7d |-> views7d,
                      views30d |-> rollingWindows.w30d[i].views,
                      addToCarts7d |-> rollingWindows.w7d[i].addToCarts,
                      viewToPurchase7d |-> np_divide_where(sales7d, views7d),
                      avgRating |-> reviews.avg[i],
                      ratingCount |-> reviews.count[i],
                      inventoryQty |-> inventoryQty,
                      daysSinceRestock |->
                        IF lastRestockDate.has
                        THEN IF lastRestockDate.ts <= Midnight(snap_norm)
                             THEN snap_norm - DateOf(lastRestockDate.ts)
                             ELSE defaultDaysSinceRestock
                        ELSE defaultDaysSinceRestock,
                      storeViews7d |-> IF storeTs # <<>> THEN storeTs[i].views ELSE 0,
                      storePurchases7d |->
                        IF storeTs # <<>> THEN storeTs[i].purchases ELSE 0,
                      futureSales14d |-> future_sales,
                      stockout14d |-> IF future_sales > inventoryQty THEN 1 ELSE 0]>>
      RECURSIVE upto(_)
      upto(k) == IF k = 0 THEN <<>> ELSE upto(k - 1) \o rowAt(k)
  IN upto(Len(snapshotDates))

(* lines 177-260 *)
_buildProductFeaturesMLP(productId, storeId, snapshotDates, dateIndex, prodStatsSubset, storeStatsSubset, variantsSubset, inventorySubset, reviewsSubset) ==
  LET prodStats == {r \in prodStatsSubset :
                      r.productId = productId /\ (storeId # NaN => r.storeId = storeId)}
      ts == buildTimeseriesTable(prodStats, dateIndex)
      storeTs == IF storeId # NaN
                 THEN buildTimeseriesTable({r \in storeStatsSubset : r.storeId = storeId},
                                           dateIndex)
                 ELSE Returned(<<>>)
      variantIds == {v.id : v \in {x \in variantsSubset : x.productId = productId}}
      inventory == {r \in inventorySubset : r.variantId \in variantIds}
      reviews == {r \in reviewsSubset : r.productId = productId}
  IN IF ts.raised # "" THEN ts
     ELSE IF storeTs.raised # "" THEN storeTs
     ELSE IF merge_asof_raises(inventory, variantIds) THEN Raised("ValueError")
     ELSE Returned(_buildFeatureRowsVectorized(
            productId, storeId, snapshotDates, dateIndex,
            computeRollingWindows(ts.value), storeTs.value,
            computeInventoryByDate(inventory, variantIds, dateIndex),
            computeReviewsCumulative(reviews, productId, dateIndex),
            IF inventory # {} THEN Some(MaxOf({r.updatedAt : r \in inventory})) ELSE None,
            prodStats))

(* lines 110-175: one long-format row per calendar date *)
_buildProductFeaturesTFT(productId, storeId, dateIndex, globalMinDate, prodStatsSubset, variantsSubset, inventorySubset) ==
  LET prodStats == {r \in prodStatsSubset :
                      r.productId = productId /\ (storeId # NaN => r.storeId = storeId)}
      statAt(d) == LET hit == {r \in prodStats : r.date = d}
                   IN IF hit = {} THEN ZeroStat ELSE CHOOSE r \in hit : TRUE
      variantIds == {v.id : v \in {x \in variantsSubset : x.productId = productId}}
      inventory == {r \in inventorySubset : r.variantId \in variantIds}
      inventoryByDate == computeInventoryByDate(inventory, variantIds, dateIndex)
  IN IF merge_asof_raises(inventory, variantIds) THEN Raised("ValueError")
     ELSE Returned([i \in DOMAIN dateIndex |->
            [date |-> dateIndex[i],
             productId |-> productId,
             storeId |-> IF storeId # NaN THEN storeId ELSE "unknown",
             purchases |-> statAt(dateIndex[i]).purchases,
             views |-> statAt(dateIndex[i]).views,
             inventoryQty |-> inventoryByDate[i],
             time_idx |-> dateIndex[i] - globalMinDate]])

(* mutant: an entity that raises takes the rows collected so far with it *)
extendOrSkip_losing(before, rows, product) == IF rows.raised = "" THEN [rows |-> before.rows \o rows.value, logged |-> before.logged] ELSE [rows |-> <<>>, logged |-> Append(before.logged, product)]

(* lines 79-106: allRows.extend(rows), or log and continue on an exception *)
extendOrSkip(before, rows, product) == IF rows.raised = "" THEN [rows |-> before.rows \o rows.value, logged |-> before.logged] ELSE [rows |-> before.rows, logged |-> Append(before.logged, product)]

(* lines 36-108: the rows of the batch's products, in batch order; a       *)
(* product whose computation raises is logged and skipped                  *)
RECURSIVE processBatchUpTo(_, _, _, _, _, _, _, _, _, _)
processBatchUpTo(n, batchProducts, snapshotDates, dateIndex, prodStatsSubset, storeStatsSubset, variantsSubset, inventorySubset, reviewsSubset, modelType) ==
  IF n = 0 THEN [rows |-> <<>>, logged |-> <<>>]
  ELSE LET before == processBatchUpTo(n - 1, batchProducts, snapshotDates, dateIndex,
                                      prodStatsSubset, storeStatsSubset, variantsSubset,
                                      inventorySubset, reviewsSubset, modelType)
           product == batchProducts[n]
           rows == IF modelType = "tft"
                   THEN _buildProductFeaturesTFT(product.id, product.storeId, dateIndex,
                                                 snapshotDates[1], prodStatsSubset,
                                                 variantsSubset, inventorySubset)
                   ELSE _buildProductFeaturesMLP(product.id, product.storeId,
                                                 snapshotDates, dateIndex, prodStatsSubset,
                                                 storeStatsSubset, variantsSubset,
                                                 inventorySubset, reviewsSubset)
       IN extendOrSkip(before, rows, product)

processBatch(batchProducts, snapshotDates, productStats, storeStats, variants, inventory, reviews, modelType) ==
  LET paddedStart == IF modelType = "mlp" THEN snapshotDates[1] - paddingDays
                     ELSE snapshotDates[1]
      dateIndex == date_range(paddedStart, snapshotDates[Len(snapshotDates)])
      batchProductIds == {batchProducts[i].id : i \in DOMAIN batchProducts}
      batchStoreIds == {batchProducts[i].storeId : i \in DOMAIN batchProducts}
  IN processBatchUpTo(Len(batchProducts), batchProducts, snapshotDates, dateIndex,
       {r \in productStats : r.productId \in batchProductIds},
       {r \in storeStats : r.storeId \in batchStoreIds},
       {r \in variants : r.productId \in batchProductIds},
       {r \in inventory : r.variantId \in batchProductIds},
       {r \in reviews : r.productId \in batchProductIds},
       modelType)

(* ------------------- export_features.py (stand-alone script) ----------- *)
legacyReviewFutureDays == 365

fetch_product_daily_stats(tbl, start, end) == {r \in tbl : r.date >= start /\ r.date <= end}

fetch_store_daily_stats(tbl, start, end) == {r \in tbl : r.date >= start /\ r.date <= end}

fetch_reviews(tbl, start, end) ==
  {r \in tbl : /\ r.createdAt >= Midnight(start - reviewHistoryDays)
               /\ r.createdAt <= Midnight(end + legacyReviewFutureDays)}

load_products(tbl, product_ids) ==
  IF product_ids # {} THEN SelectSeq(tbl, LAMBDA r : r.id \in product_ids) ELSE tbl

prepare_timeseries_table(prod_stats, date_index) ==
  IF prod_stats = {} THEN Returned([i \in DOMAIN date_index |-> ZeroStat])
  ELSE reindex(prod_stats, date_index)

compute_inventory_by_date(inv_df, variants_for_prod, date_index) ==
  computeInventoryByDate(inv_df, variants_for_prod, date_index)

compute_reviews_cumulative(reviews_df, product_id, date_index) ==
  computeReviewsCumulative(reviews_df, product_id, date_index)

(* lines 214-342; utcnow is the date read from the wall clock (line 295) *)
build_rows_for_product(product_id, store_id, snapshot_strings, prod_stats_df, store_stats_df, variants_df, inv_df, reviews_df, utcnow) ==
  LET date_index == snapshot_strings
      p_stats == {r \in prod_stats_df : r.productId = product_id}
      ts == prepare_timeseries_table(p_stats, date_index)
      s_stats == {r \in store_stats_df : r.storeId = store_id}
      store_ts == IF store_stats_df # {} /\ store_id # NoStore /\ s_stats # {}
                  THEN reindex(s_stats, date_index)
                  ELSE Returned([i \in DOMAIN date_index |-> ZeroStat])
      variant_ids == {v.id : v \in {x \in variants_df : x.productId = product_id}}
      inv_by_date == compute_inventory_by_date(inv_df, variant_ids, date_index)
      cumulative == compute_reviews_cumulative(reviews_df, product_id, date_index)
      rowAt(idx) ==
        LET d == date_index[idx]
            sales_7 == roll_sum(Column(ts.value, "purchases"), 7)[idx]
            sales_30 == roll_sum(Column(ts.value, "purchases"), 30)[idx]
            views_7 == roll_sum(Column(ts.value, "views"), 7)[idx]
            inventory_qty == inv_by_date[idx]
            sel == {r \in prod_stats_df : /\ r.productId = product_id
                                          /\ r.date >= d + 1 /\ r.date <= d + 14}
            future_sales == SumFn([r \in prod_stats_df |-> r.purchases], sel)
        IN [productId |-> product_id,
            storeId |-> store_id,
            snapshot_date |-> d,
            sales_7d |-> sales_7,
            sales_14d |-> roll_sum(Column(ts.value, "purchases"), 14)[idx],
            sales_30d |-> sales_30,
            sales_ratio_7_30 |-> IF sales_30 > 0 THEN <<sales_7, sales_30>> ELSE <<0, 1>>,
            views_7d |-> views_7,
            views_30d |-> roll_sum(Column(ts.value, "views"), 30)[idx],
            addToCarts_7d |-> roll_sum(Column(ts.value, "addToCarts"), 7)[idx],
            view_to_purchase_7d |-> IF views_7 > 0 THEN <<sales_7, views_7>> ELSE <<0, 1>>,
            avg_rating |-> cumulative.avg[idx],
            rating_count |-> cumulative.count[idx],
            inventory_qty |-> inventory_qty,
            days_since_restock |->
              IF inv_df # {}
              THEN utcnow - DateOf(MaxOf({r.updatedAt : r \in inv_df}))
              ELSE defaultDaysSinceRestock,
            store_views_7d |-> store_ts.value[idx].views,
            store_purchases_7d |-> store_ts.value[idx].purchases,
            future_sales_14d |-> future_sales,
            stockout_14d |-> IF future_sales > inventory_qty THEN 1 ELSE 0]
  IN IF ts.raised # "" THEN ts
     ELSE IF store_ts.raised # "" THEN store_ts
     ELSE Returned([idx \in DOMAIN date_index |-> rowAt(idx)])

(* lines 345-397: no exception is caught, a raising product ends the run *)
RECURSIVE export_rows_upto(_, _, _, _, _, _, _, _, _)
export_rows_upto(n, products_df, snapshot_strings, prod_stats, store_stats, variants, inventory, reviews, utcnow) ==
  IF n = 0 THEN Returned(<<>>)
  ELSE LET before == export_rows_upto(n - 1, products_df, snapshot_strings, prod_stats,
                                      store_stats, variants, inventory, reviews, utcnow)
           rows == build_rows_for_product(products_df[n].id, products_df[n].storeId,
                                          snapshot_strings, prod_stats, store_stats,
                                          variants, inventory, reviews, utcnow)
       IN IF before.raised # "" THEN before
          ELSE IF rows.raised # "" THEN rows
          ELSE Returned(before.value \o rows.value)

export_features_cli(T, start, end, product_ids, utcnow) ==
  LET padded_start == start - 29
      products_df == load_products(T.products, product_ids)
  IN export_rows_upto(Len(products_df), products_df, date_range(start, end),
                      fetch_product_daily_stats(T.productStats, padded_start, end),
                      fetch_store_daily_stats(T.storeStats, padded_start, end),
                      T.variants, T.inventory,
                      fetch_reviews(T.reviews, padded_start, end), utcnow)

(* ------------------------------ inputs --------------------------------- *)
paddedStartDate == getDateRangeWithPadding(startDate, endDate, paddingDays)[1]

requestedProductIds == {"p1", "p2"}

ProductsTable == <<[id |-> "p1", storeId |-> "s1"], [id |-> "p2", storeId |-> NoStore]>>

VariantsTable ==
  {[id |-> "v1", productId |-> "p1"], [id |-> "v2", productId |-> "p1"],
   [id |-> "v3", productId |-> "p2"]}

RECURSIVE SubsetsUpTo(_, _)
SubsetsUpTo(U, k) ==
  IF k = 0 THEN {{}}
  ELSE LET prev == SubsetsUpTo(U, k - 1)
       IN prev \cup {s \cup {x} : s \in prev, x \in U}

StatDays ==
  {paddedStartDate + 3, startDate, startDate + 1,
   startDate + labelHorizonDays, startDate + labelHorizonDays + 1}

StatRow(p, d, q, v, a) ==
  [productId |-> p, date |-> d, purchases |-> q, views |-> v, addToCarts |-> a]

StatUniverse == {StatRow("p1", d, q, 5, 0) : d \in StatDays, q \in {2, 10}}

OtherProductStat == StatRow("p2", startDate + 1, 7, 1, 1)

UniqueDates(rows) == \A r1, r2 \in rows : r1.date = r2.date => r1 = r2

StatChoices ==
  {s \cup {OtherProductStat} :
     s \in {x \in SubsetsUpTo(StatUniverse, MaxStatRows) : UniqueDates(x)}}

ConstantSeries(v) == {StatRow("p1", d, v, v, v) : d \in paddedStartDate..endDate}

InvDays == {startDate, startDate + 5}

InvRow(v, t, q) == [variantId |-> v, updatedAt |-> t, quantity |-> q]

InvUniverse ==
  {InvRow("v1", Midnight(d) + tod, q) :
     d \in InvDays, tod \in 0..(TicksPerDay - 1), q \in {-5, 40}}
  \cup {InvRow("v2", Midnight(d), 100) : d \in {startDate, startDate + 5}}

OtherProductInv == InvRow("v3", Midnight(startDate + 2), 7)

UniqueUpdates(rows) ==
  \A r1, r2 \in rows :
    (r1.variantId = r2.variantId /\ r1.updatedAt = r2.updatedAt) => r1 = r2

InvChoices ==
  {s \cup {OtherProductInv} :
     s \in {x \in SubsetsUpTo(InvUniverse, MaxInvRows) : UniqueUpdates(x)}}

ReviewRow(p, t, r) == [productId |-> p, createdAt |-> t, rating |-> r]

ReviewTimes ==
  {Midnight(paddedStartDate - 1), Midnight(paddedStartDate + 2), Midnight(startDate + 3)}
  \cup {Midnight(startDate) + tod : tod \in 0..(TicksPerDay - 1)}

ReviewUniverse == {ReviewRow("p1", t, r) : t \in ReviewTimes, r \in {2, 5}}

OtherProductReview == ReviewRow("p2", Midnight(startDate), 4)

ReviewChoices ==
  {s \cup {OtherProductReview} : s \in SubsetsUpTo(ReviewUniverse, MaxReviewRows)}

StoreRow(s, d, v, q) ==
  [storeId |-> s, date |-> d, views |-> v, purchases |-> q, addToCarts |-> 0]

Database(stats, store, variants, inv, reviews) ==
  [products |-> ProductsTable, productStats |-> stats, storeStats |-> store,
   variants |-> variants, inventory |-> inv, reviews |-> reviews]

StatsFamily ==
  {Database(s, {}, VariantsTable, {InvRow("v1", Midnight(paddedStartDate + 1), 4)}, {}) :
     s \in StatChoices \cup {ConstantSeries(1), ConstantSeries(2)}}

InventoryFamily ==
  {Database({StatRow("p1", startDate + 1, 10, 5, 1)}, {}, VariantsTable, i, {}) :
     i \in InvChoices}

ReviewsFamily ==
  {Database({}, {}, VariantsTable, {}, r) : r \in ReviewChoices}

MixedFamily ==
  {Database(s, st, v, i, r) :
     s \in {{},
            {StatRow("p1", startDate + 2, 10, 0, 1)},
            {StatRow("p1", paddedStartDate - 1, 2, 5, 0),
             StatRow("p1", endDate, 2, 5, 0),
             StatRow("p1", endDate + 1, 10, 5, 0)}},
     st \in {{}, {StoreRow("s1", startDate, 9, 3), StoreRow("s2", startDate, 8, 2)}},
     v \in {VariantsTable, {x \in VariantsTable : x.productId = "p1"}},
     i \in {{}, {InvRow("v1", Midnight(paddedStartDate - 1) + 1, 40)},
            {InvRow("v1", Midnight(startDate - 2), 40),
             InvRow("v2", Midnight(startDate + 3) + 1, 100)}},
     r \in {{}, {ReviewRow("p1", Midnight(startDate + 1) + 1, 5)},
            {ReviewRow("p1", Midnight(paddedStartDate - reviewHistoryDays) - 1, 2),
             ReviewRow("p1", Midnight(paddedStartDate - reviewHistoryDays), 5)}}}

DuplicateFamily ==
  {Database(s, {}, VariantsTable, i, {}) :
     s \in {{StatRow("p1", startDate, 2, 5, 0), StatRow("p1", startDate, 10, 5, 0)},
            {StatRow("p1", startDate + 1, 2, 5, 0), StatRow("p1", startDate + 1, 10, 5, 1),
             StatRow("p2", startDate, 7, 1, 1)},
            {StatRow("p1", startDate, 2, 5, 0),
             StatRow("p2", paddedStartDate, 7, 1, 1), StatRow("p2", paddedStartDate, 7, 2, 1)}},
     i \in {{}, {InvRow("v1", Midnight(startDate), 40)}}}

(* two rows of store_daily_stats for one store and date; p1 has no event,   *)
(* or one in the lead-in only                                               *)
StoreDuplicateFamily ==
  {Database(s, {StoreRow("s1", startDate, 9, 3), StoreRow("s1", startDate, 8, 2)},
            VariantsTable, i, {}) :
     s \in {{}, {StatRow("p2", startDate, 7, 1, 1)},
            {StatRow("p1", startDate - 1, 4, 6, 1)}},
     i \in {{}, {InvRow("v1", Midnight(startDate), 40)}}}

(* input files of the file exporter: rows in file order *)
FileUnsorted ==
  <<RawRow("i1", "p2", 3, Midnight(startDate), 5, "UK"),
    RawRow("i2", "p1", 2, Midnight(startDate + 1) + 1, 5, "UK"),
    RawRow("i3", "p1", 2, Midnight(startDate + 1), 7, "FR")>>

FileSorted ==
  <<RawRow("i1", "p1", 2, Midnight(startDate), 7, "FR"),
    RawRow("i2", "p1", 2, Midnight(startDate) + 1, 5, "UK"),
    RawRow("i2", "p2", 3, Midnight(startDate + 2), 5, "UK"),
    RawRow("i3", "p2", 1, Midnight(startDate + 2), 5, "UK")>>

FileMalformedDate ==
  <<RawRow("i1", "p1", 2, Midnight(startDate), 5, "UK"),
    RawRow("i2", "p2", 4, NaT, 5, "UK"),
    RawRow("i3", "p2", 3, Midnight(startDate + 2), 5, "UK"),
    RawRow("i4", "p3", 1, Midnight(startDate + 1), 5, "UK")>>

FileMissingCells ==
  <<RawRow("i1", "p1", 2, Midnight(startDate), 5, NaN),
    RawRow("i2", NaN, 4, Midnight(startDate), 5, "UK"),
    RawRow("i3", "p3", 3, Midnight(startDate + 1), 5, "UK"),
    RawRow("i4", "p1", 1, Midnight(startDate + 1), 5, "UK")>>

FileTwoStores ==
  <<RawRow("i1", "p1", 2, Midnight(startDate), 5, "UK"),
    RawRow("i2", "p2", 3, Midnight(startDate + 1), 5, "FR"),
    RawRow("i3", "p1", 2, Midnight(startDate), 5, "FR")>>

FileOneProduct ==
  <<RawRow("i1", "p1", 2, Midnight(startDate), 5, "UK"),
    RawRow("i2", "p1", 3, Midnight(startDate + 1), 5, "UK")>>

(* one product sold in two stores on different days *)
FileStoresApart ==
  <<RawRow("i1", "p1", 2, Midnight(startDate), 5, "UK"),
    RawRow("i2", "p1", 9, Midnight(startDate + 1), 5, "FR"),
    RawRow("i3", "p2", 1, Midnight(startDate + 1), 5, "UK")>>

InputFiles ==
  {FileUnsorted, FileSorted, FileMalformedDate, FileMissingCells, FileTwoStores,
   FileOneProduct, FileStoresApart}

(* ------------------------------- state --------------------------------- *)
(* db .. skipped: FeatureExporter; inputFile .. failedBatches:              *)
(* FileFeatureExporter; pc, allRows and csv are used by both; clock and     *)
(* runs: the stand-alone script, run several times over one database.       *)
VARIABLES db, loaded, pc, prodIdx, calls, allRows, csv, skipped, inputFile, modelType, batchSize, maxWorkers, tables, futures, completionOrder, futIdx, failedBatches, clock, runs, config, request, serverModelType, deliveries, mqPc, mqPath, results, channel

dbVars == <<db, loaded, prodIdx, calls, skipped>>

fileVars == <<inputFile, modelType, batchSize, maxWorkers, tables, futures, completionOrder, futIdx, failedBatches>>

legacyVars == <<clock, runs>>

cfgVars == <<config, request>>

mqVars == <<serverModelType, deliveries, mqPc, mqPath, results, channel>>

vars == <<dbVars, fileVars, legacyVars, cfgVars, mqVars, pc, allRows, csv>>

NotLoaded ==
  [products |-> <<>>, productStats |-> {}, storeStats |-> {}, variants |-> {},
   inventory |-> {}, reviews |-> {}]

DbIdle ==
  /\ db = Database({}, {}, {}, {}, {})
  /\ loaded = NotLoaded
  /\ prodIdx = 1
  /\ calls = <<>>
  /\ skipped = <<>>

NoTables ==
  [products |-> <<>>, snapshotDates |-> <<>>, productStats |-> {}, storeStats |-> {},
   variants |-> {}, inventory |-> {}, reviews |-> {}, batches |-> <<>>]

FileIdle ==
  /\ inputFile = <<>>
  /\ modelType = "mlp"
  /\ batchSize = 1
  /\ maxWorkers = 1
  /\ tables = NoTables
  /\ futures = <<>>
  /\ completionOrder = <<>>
  /\ futIdx = 1
  /\ failedBatches = <<>>

firstRunDate == endDate + 1

LegacyIdle ==
  /\ clock = firstRunDate
  /\ runs = <<>>

CfgIdle ==
  /\ config = DefaultConfig
  /\ request = [start |-> startDate, end |-> endDate]

MqIdle ==
  /\ serverModelType = "mlp"
  /\ deliveries = <<>>
  /\ mqPc = "idle"
  /\ mqPath = "try"
  /\ results = <<>>
  /\ channel = <<>>

Init ==
  /\ MqIdle
  /\ CfgIdle
  /\ FileIdle
  /\ LegacyIdle
  /\ db \in StatsFamily \cup InventoryFamily \cup ReviewsFamily \cup MixedFamily
             \cup DuplicateFamily \cup StoreDuplicateFamily
  /\ loaded = NotLoaded
  /\ pc = "load"
  /\ prodIdx = 1
  /\ calls = <<>>
  /\ allRows = <<>>
  /\ csv = <<>>
  /\ skipped = <<>>

(* mutant: rows are also built for the lead-in dates *)
snapshotDates_with_lead_in == date_range(paddedStartDate, endDate)

snapshotDates == date_range(startDate, endDate)

(* ------------------- FeatureExporter.exportFeatures -------------------- *)
(* lines 56-106: load every table once, upfront *)
LoadData ==
  /\ pc = "load"
  /\ LET products == loadProducts(db.products, requestedProductIds)
         productIds == {products[i].id : i \in DOMAIN products}
         storeIds == {products[i].storeId : i \in DOMAIN products}
         variants == loadVariants(db.variants, productIds)
         variantIds == {v.id : v \in variants}
     IN /\ loaded' =
             [products |-> products,
              productStats |-> loadProductDailyStats(db.productStats, paddedStartDate,
                                                     endDate, productIds),
              storeStats |-> loadStoreDailyStats(db.storeStats, paddedStartDate,
                                                 endDate, storeIds),
              variants |-> variants,
              inventory |-> loadInventory(db.inventory, variantIds),
              reviews |-> loadReviews(db.reviews, paddedStartDate, endDate, productIds)]
        /\ pc' = IF products = <<>> THEN "done" ELSE "products"
  /\ UNCHANGED <<db, prodIdx, calls, allRows, csv, skipped, fileVars, legacyVars, cfgVars, mqVars>>

(* lines 112-137: one iteration of the product loop; a product whose        *)
(* computation raises is logged and skipped                                 *)
ProcessProduct ==
  /\ pc = "products"
  /\ prodIdx <= Len(loaded.products)
  /\ LET product == loaded.products[prodIdx]
         call == _buildProductFeatures(product.id, product.storeId, snapshotDates,
                                       loaded.productStats, loaded.storeStats,
                                       loaded.variants, loaded.inventory,
                                       loaded.reviews)
     IN IF call.raised = ""
        THEN /\ calls' = Append(calls, call.value)
             /\ allRows' = allRows \o call.value.rows
             /\ UNCHANGED skipped
        ELSE /\ skipped' = Append(skipped, product.id)
             /\ UNCHANGED <<calls, allRows>>
  /\ prodIdx' = prodIdx + 1
  /\ UNCHANGED <<db, loaded, pc, csv, fileVars, legacyVars, cfgVars, mqVars>>

(* lines 139-165: write the table *)
SaveCsv ==
  /\ pc = "products"
  /\ prodIdx > Len(loaded.products)
  /\ csv' = allRows
  /\ pc' = "done"
  /\ UNCHANGED <<db, loaded, prodIdx, calls, allRows, skipped, fileVars, legacyVars, cfgVars, mqVars>>

Next == LoadData \/ ProcessProduct \/ SaveCsv

Spec == Init /\ [][Next]_vars

(* ------------------- FileFeatureExporter.exportFeatures ---------------- *)
MaxBatchSize == 2
MaxWorkers == 2

FileInit ==
  /\ MqIdle
  /\ CfgIdle
  /\ DbIdle
  /\ LegacyIdle
  /\ inputFile \in InputFiles
  /\ modelType \in {"mlp", "tft"}
  /\ batchSize \in 1..MaxBatchSize
  /\ maxWorkers \in 1..MaxWorkers
  /\ tables = NoTables
  /\ futures = <<>>
  /\ completionOrder = <<>>
  /\ futIdx = 1
  /\ failedBatches = <<>>
  /\ pc = "load"
  /\ allRows = <<>>
  /\ csv = <<>>

Pending == [state |-> "pending", result |-> Returned(<<>>)]

(* lines 408-533: read the file, derive the tables, cut the product list    *)
(* into batches and submit one future per batch                             *)
FileLoad ==
  /\ pc = "load"
  /\ LET df == prepareFrame(inputFile)
         products == fileProducts(df, {})
         batches == makeBatches(products, batchSize)
     IN IF products = <<>>
        THEN /\ pc' = "done"
             /\ UNCHANGED <<tables, futures>>
        ELSE /\ tables' = [products |-> products,
                           snapshotDates |-> fileSnapshotDates(df),
                           productStats |-> fileProductStats(df),
                           storeStats |-> fileStoreStats(df),
                           variants |-> fileVariants(df),
                           inventory |-> fileInventory(df),
                           reviews |-> fileReviews(df),
                           batches |-> batches]
             /\ futures' = [b \in DOMAIN batches |-> Pending]
             /\ pc' = "pool"
  /\ UNCHANGED <<dbVars, legacyVars, inputFile, modelType, batchSize, maxWorkers, completionOrder, futIdx, failedBatches, allRows, csv, cfgVars, mqVars>>

Running == {b \in DOMAIN futures : futures[b].state = "running"}

(* ProcessPoolExecutor: a free worker takes the oldest pending work item *)
WorkerStart ==
  /\ pc = "pool"
  /\ Cardinality(Running) < maxWorkers
  /\ \E b \in DOMAIN futures :
       /\ futures[b].state = "pending"
       /\ \A a \in 1..(b - 1) : futures[a].state # "pending"
       /\ futures' = [futures EXCEPT ![b].state = "running"]
  /\ UNCHANGED <<dbVars, legacyVars, inputFile, modelType, batchSize, maxWorkers, tables, completionOrder, futIdx, failedBatches, pc, allRows, csv, cfgVars, mqVars>>

(* lines 603-627: _processBatchStatic returns the rows of its batch *)
_processBatchStatic(batch) ==
  processBatch(batch, tables.snapshotDates, tables.productStats, tables.storeStats,
               tables.variants, tables.inventory, tables.reviews, modelType)

WorkerFinish ==
  /\ pc = "pool"
  /\ \E b \in Running :
       /\ futures' = [futures EXCEPT ![b] =
                        [state |-> "done",
                         result |-> Returned(_processBatchStatic(tables.batches[b]).rows)]]
       /\ completionOrder' = Append(completionOrder, b)
  /\ UNCHANGED <<dbVars, legacyVars, inputFile, modelType, batchSize, maxWorkers, tables, futIdx, failedBatches, pc, allRows, csv, cfgVars, mqVars>>

(* the call in the worker raises: the future holds the exception *)
WorkerRaise ==
  /\ pc = "pool"
  /\ \E b \in Running :
       /\ futures' = [futures EXCEPT ![b] =
                        [state |-> "done", result |-> Raised("Exception")]]
       /\ completionOrder' = Append(completionOrder, b)
  /\ UNCHANGED <<dbVars, legacyVars, inputFile, modelType, batchSize, maxWorkers, tables, futIdx, failedBatches, pc, allRows, csv, cfgVars, mqVars>>

(* mutant: results are taken in completion order (as_completed) *)
nextFuture_as_completed(futs, order, k) == IF k <= Len(order) THEN order[k] ELSE 0

(* lines 536-544: "for future in futures" walks the futures in submission   *)
(* order; future.result() waits until that future is done (0: not yet)      *)
nextFuture(futs, order, k) == IF futs[k].state = "done" THEN k ELSE 0

(* mutant: a failed batch discards what was collected before it *)
collectResult_discarding(rows, result) == IF result.raised = "" THEN rows \o result.value ELSE <<>>

(* lines 537-544: the rows of a batch are appended when result() returns;   *)
(* when it raises, the error is logged and the loop goes on                 *)
collectResult(rows, result) == IF result.raised = "" THEN rows \o result.value ELSE rows

Collect ==
  /\ pc = "pool"
  /\ futIdx <= Len(futures)
  /\ LET b == nextFuture(futures, completionOrder, futIdx)
     IN /\ b # 0
        /\ allRows' = collectResult(allRows, futures[b].result)
        /\ failedBatches' = IF futures[b].result.raised = "" THEN failedBatches
                            ELSE Append(failedBatches, b)
  /\ futIdx' = futIdx + 1
  /\ UNCHANGED <<dbVars, legacyVars, inputFile, modelType, batchSize, maxWorkers, tables, futures, completionOrder, pc, csv, cfgVars, mqVars>>

(* Python compares str by code point: upper case before lower case *)
StrOrder == <<"FR", "UK", "p1", "p2", "p3", "unknown">>
StrRank(x) == CHOOSE i \in DOMAIN StrOrder : StrOrder[i] = x

(* mutant: the product is compared before the store *)
TftKeyLeq_product_first(r1, r2) == \/ StrRank(r1.productId) < StrRank(r2.productId) \/ (r1.productId = r2.productId /\ StrRank(r1.storeId) < StrRank(r2.storeId)) \/ (r1.productId = r2.productId /\ r1.storeId = r2.storeId /\ r1.time_idx <= r2.time_idx)

TftKeyLeq(r1, r2) ==
  LET k1 == <<StrRank(r1.storeId), StrRank(r1.productId), r1.time_idx>>
      k2 == <<StrRank(r2.storeId), StrRank(r2.productId), r2.time_idx>>
  IN \/ k1[1] < k2[1]
     \/ k1[1] = k2[1] /\ k1[2] < k2[2]
     \/ k1[1] = k2[1] /\ k1[2] = k2[2] /\ k1[3] <= k2[3]

(* line 581: dfOut.sort_values(['storeId', 'productId', 'time_idx']) *)
RECURSIVE sort_values_tft(_)
sort_values_tft(rows) ==
  IF rows = <<>> THEN <<>>
  ELSE LET m == CHOOSE i \in DOMAIN rows :
                  /\ \A j \in DOMAIN rows : TftKeyLeq(rows[i], rows[j])
                  /\ \A j \in 1..(i - 1) : ~TftKeyLeq(rows[j], rows[i])
           rest == [j \in 1..(Len(rows) - 1) |-> IF j < m THEN rows[j] ELSE rows[j + 1]]
       IN <<rows[m]>> \o sort_values_tft(rest)

(* lines 546-585: nothing is written when no row was produced; the mlp      *)
(* table is written in list order, the tft table is sorted                  *)
FileSave ==
  /\ pc = "pool"
  /\ futIdx > Len(futures)
  /\ csv' = IF allRows = <<>> THEN <<>>
            ELSE IF modelType = "mlp" THEN allRows
            ELSE sort_values_tft(allRows)
  /\ pc' = "done"
  /\ UNCHANGED <<dbVars, legacyVars, fileVars, allRows, cfgVars, mqVars>>

FileNext == FileLoad \/ WorkerStart \/ WorkerFinish \/ WorkerRaise \/ Collect \/ FileSave

FileSpec == FileInit /\ [][FileNext]_vars

(* ------------------- export_features.py: repeated runs ----------------- *)
MaxClockDays == 2
MaxRuns == 2

LegacyFamily ==
  {Database(s, st, VariantsTable, i, r) :
     s \in {{}, {StatRow("p1", startDate, 2, 5, 1), StatRow("p1", startDate + 1, 10, 5, 0)}},
     st \in {{}, {StoreRow("s1", startDate, 9, 3)}},
     i \in {{}, {InvRow("v1", Midnight(startDate), 40)},
            {InvRow("v1", Midnight(startDate - 2) + 1, 40),
             InvRow("v3", Midnight(startDate + 3), 7)}},
     r \in {{}, {ReviewRow("p1", Midnight(startDate + 1), 5)}}}

LegacyInit ==
  /\ MqIdle
  /\ CfgIdle
  /\ FileIdle
  /\ db \in LegacyFamily
  /\ loaded = NotLoaded
  /\ prodIdx = 1
  /\ calls = <<>>
  /\ skipped = <<>>
  /\ clock = firstRunDate
  /\ runs = <<>>
  /\ pc = "idle"
  /\ allRows = <<>>
  /\ csv = <<>>

(* time passes between two runs of the script *)
Tick ==
  /\ clock < firstRunDate + MaxClockDays
  /\ clock' = clock + 1
  /\ UNCHANGED <<dbVars, fileVars, runs, pc, allRows, csv, cfgVars, mqVars>>

(* one run of export_features_cli over the same database and arguments *)
LegacyExport ==
  /\ Len(runs) < MaxRuns
  /\ runs' = Append(runs, export_features_cli(db, startDate, endDate, {}, clock))
  /\ UNCHANGED <<dbVars, fileVars, clock, pc, allRows, csv, cfgVars, mqVars>>

LegacyNext == Tick \/ LegacyExport

LegacySpec == LegacyInit /\ [][LegacyNext]_vars

(* ------------- FeatureExporter under any configuration and range ------- *)
Configs ==
  {DefaultConfig,
   FeatureConfig(0, window14d, window30d, paddingDays),
   FeatureConfig(window7d, window14d, 0 - window30d, paddingDays),
   FeatureConfig(window7d, window14d, window30d, window7d - 1),
   FeatureConfig(window7d, window14d, window30d, 0 - 1)}

Requests ==
  {[start |-> startDate, end |-> endDate],
   [start |-> startDate, end |-> startDate],
   [start |-> endDate, end |-> startDate],
   [start |-> endDate + 1, end |-> startDate]}

CfgFamily ==
  {Database(s, {}, VariantsTable, i, {}) :
     s \in {{}, {StatRow("p1", startDate, 2, 5, 1), StatRow("p1", startDate - 1, 10, 5, 0)},
            {StatRow("p2", startDate, 7, 1, 1)}},
     i \in {{}, {InvRow("v1", Midnight(startDate - 1), 40)}}}

CfgInit ==
  /\ MqIdle
  /\ FileIdle
  /\ LegacyIdle
  /\ config \in Configs
  /\ request \in Requests
  /\ db \in CfgFamily
  /\ loaded = NotLoaded
  /\ pc = "load"
  /\ prodIdx = 1
  /\ calls = <<>>
  /\ allRows = <<>>
  /\ csv = <<>>
  /\ skipped = <<>>

(* export_features.py lines 56-106 with the given range and configuration *)
CfgLoadData ==
  /\ pc = "load"
  /\ LET paddedStart == getDateRangeWithPadding(request.start, request.end, config.paddingDays)[1]
         products == loadProducts(db.products, requestedProductIds)
         productIds == {products[i].id : i \in DOMAIN products}
         storeIds == {products[i].storeId : i \in DOMAIN products}
         variants == loadVariants(db.variants, productIds)
     IN /\ loaded' =
             [products |-> products,
              productStats |-> loadProductDailyStats(db.productStats, paddedStart,
                                                     request.end, productIds),
              storeStats |-> loadStoreDailyStats(db.storeStats, paddedStart,
                                                 request.end, storeIds),
              variants |-> variants,
              inventory |-> loadInventory(db.inventory, {v.id : v \in variants}),
              reviews |-> loadReviews(db.reviews, paddedStart, request.end, productIds)]
        /\ pc' = IF products = <<>> THEN "done" ELSE "products"
  /\ UNCHANGED <<db, prodIdx, calls, allRows, csv, skipped, fileVars, legacyVars, cfgVars, mqVars>>

(* lines 112-137 *)
CfgProcessProduct ==
  /\ pc = "products"
  /\ prodIdx <= Len(loaded.products)
  /\ LET product == loaded.products[prodIdx]
         call == _buildProductFeaturesUnder(config, product.id, product.storeId,
                                            date_range(request.start, request.end),
                                            loaded.productStats, loaded.storeStats,
                                            loaded.variants, loaded.inventory,
                                            loaded.reviews)
     IN IF call.raised = ""
        THEN /\ allRows' = allRows \o call.value
             /\ UNCHANGED skipped
        ELSE /\ skipped' = Append(skipped, product.id)
             /\ UNCHANGED allRows
  /\ prodIdx' = prodIdx + 1
  /\ UNCHANGED <<db, loaded, pc, calls, csv, fileVars, legacyVars, cfgVars, mqVars>>

(* lines 139-165 *)
CfgSaveCsv ==
  /\ pc = "products"
  /\ prodIdx > Len(loaded.products)
  /\ csv' = allRows
  /\ pc' = "done"
  /\ UNCHANGED <<db, loaded, prodIdx, calls, allRows, skipped, fileVars, legacyVars, cfgVars, mqVars>>

CfgNext == CfgLoadData \/ CfgProcessProduct \/ CfgSaveCsv

CfgSpec == CfgInit /\ [][CfgNext]_vars

(* ------------------- serve_rabbitmq.on_message -------------------------- *)
(* deliveries: the messages handed to the callback, the delivery tag of a   *)
(* message is its position; channel: the basic_publish and basic_ack calls  *)
(* made on the channel, in order; mqPc and mqPath: the position of the      *)
(* callback.  The consumer is a blocking one with prefetch_count = 1: the   *)
(* callback handles one message at a time.                                  *)
MaxMessages == 2
MaxRows == 2

RowKinds == {"complete", "empty"}

Bodies == {[json |-> FALSE, rows |-> <<>>]} \cup {[json |-> TRUE, rows |-> r] : r \in UNION {[1..n -> RowKinds] : n \in 0..MaxRows}}

Messages == {[body |-> b, reply_to |-> q] : b \in Bodies, q \in {"", "response_queue"}}

MqInit ==
  /\ DbIdle
  /\ FileIdle
  /\ LegacyIdle
  /\ CfgIdle
  /\ pc = "idle"
  /\ allRows = <<>>
  /\ csv = <<>>
  /\ serverModelType \in {"mlp", "tft"}
  /\ deliveries = <<>>
  /\ mqPc = "idle"
  /\ mqPath = "try"
  /\ results = <<>>
  /\ channel = <<>>

(* the broker hands the next message to the callback *)
MqDeliver ==
  /\ mqPc = "idle"
  /\ Len(deliveries) < MaxMessages
  /\ \E m \in Messages : deliveries' = Append(deliveries, m)
  /\ mqPc' = "loads"
  /\ mqPath' = "try"
  /\ results' = <<>>
  /\ UNCHANGED <<dbVars, fileVars, legacyVars, cfgVars, serverModelType, channel, pc, allRows, csv>>

CurrentTag == Len(deliveries)
CurrentMessage == deliveries[CurrentTag]

(* lines 147-148: json.loads raises on a malformed body *)
MqLoads ==
  /\ mqPc = "loads"
  /\ mqPc' = IF CurrentMessage.body.json THEN "rows" ELSE "except"
  /\ UNCHANGED <<dbVars, fileVars, legacyVars, cfgVars, serverModelType, deliveries, mqPath, results, channel, pc, allRows, csv>>

(* lines 152-170: a row without history/features makes the unpacking raise; *)
(* in mlp mode days_until_stockout is never bound, so building the result   *)
(* raises for every row; either way the error is caught and recorded        *)
predictRow(kind, i) ==
  IF kind = "complete" /\ serverModelType = "tft"
  THEN [index |-> i - 1, label |-> "low"]
  ELSE [index |-> i - 1, error |-> "Exception"]

(* lines 149-172 *)
MqRows ==
  /\ mqPc = "rows"
  /\ results' = [i \in DOMAIN CurrentMessage.body.rows |-> predictRow(CurrentMessage.body.rows[i], i)]
  /\ mqPc' = "reply"
  /\ UNCHANGED <<dbVars, fileVars, legacyVars, cfgVars, serverModelType, deliveries, mqPath, channel, pc, allRows, csv>>

(* lines 174-180: the reply is published when the request names a reply     *)
(* queue; basic_publish may raise                                           *)
MqReply ==
  /\ mqPc = "reply"
  /\ IF CurrentMessage.reply_to # ""
     THEN \E sent \in BOOLEAN :
            /\ channel' = Append(channel, [op |-> "basic_publish", tag |-> CurrentTag,
                                           sent |-> sent, body |-> results])
            /\ mqPc' = IF sent THEN "finally" ELSE "except"
     ELSE /\ mqPc' = "finally"
          /\ UNCHANGED channel
  /\ UNCHANGED <<dbVars, fileVars, legacyVars, cfgVars, serverModelType, deliveries, mqPath, results, pc, allRows, csv>>

(* lines 181-182 *)
MqExcept ==
  /\ mqPc = "except"
  /\ mqPath' = "except"
  /\ mqPc' = "finally"
  /\ UNCHANGED <<dbVars, fileVars, legacyVars, cfgVars, serverModelType, deliveries, results, channel, pc, allRows, csv>>

(* mutant: the acknowledgement is the last statement of the try block *)
acksOnExit_try_only(path) == path = "try"

(* lines 183-184: the acknowledgement is in the finally clause *)
acksOnExit(path) == path \in {"try", "except"}

MqFinally ==
  /\ mqPc = "finally"
  /\ channel' = IF acksOnExit(mqPath)
                THEN Append(channel, [op |-> "basic_ack", tag |-> CurrentTag])
                ELSE channel
  /\ mqPc' = "idle"
  /\ UNCHANGED <<dbVars, fileVars, legacyVars, cfgVars, serverModelType, deliveries, mqPath, results, pc, allRows, csv>>

MqNext == MqDeliver \/ MqLoads \/ MqRows \/ MqReply \/ MqExcept \/ MqFinally

MqSpec == MqInit /\ [][MqNext]_vars

(* ======================= properties of the model ======================= *)
WindowNames == {"w7d", "w14d", "w30d"}
WindowSize == [w7d |-> window7d, w14d |-> window14d, w30d |-> window30d]
Measures == {"views", "purchases", "addToCarts"}

RECURSIVE RangeSum(_, _, _, _)
RangeSum(ts, m, lo, hi) ==
  IF lo > hi THEN 0 ELSE ts[hi][m] + RangeSum(ts, m, lo, hi - 1)

(* C1: at every calendar position i (1-based here) and for every window W   *)
(* of 7, 14 and 30 days, the rolling value of each measure is the sum of the *)
(* daily values at positions max(1, i-W+1)..i; so a constant series v gives  *)
(* min(k,7)*v on its k-th day.                                               *)
C1_RollingIsTrailingSum ==
  \A k \in DOMAIN calls :
    LET c == calls[k]
    IN /\ \A i \in DOMAIN c.ts : \A w \in WindowNames : \A m \in Measures :
            c.rollingWindows[w][i][m] =
              RangeSum(c.ts, m, Max(1, i - WindowSize[w] + 1), i)
       /\ \A v \in 1..2 :
            (\A n \in DOMAIN c.ts : c.ts[n].purchases = v)
              => \A i \in DOMAIN c.ts :
                   c.rollingWindows.w7d[i].purchases = Min(i, 7) * v

(* a single event of 10 on calendar day 3 (0-based) gives rolling7 = 10 on   *)
(* days 3..9 and 0 on day 10                                                 *)
C1_Witness ==
  \E k \in DOMAIN calls :
    LET c == calls[k]
    IN /\ \A n \in DOMAIN c.ts : c.ts[n].purchases = IF n = 4 THEN 10 ELSE 0
       /\ \A n \in 4..10 : c.rollingWindows.w7d[n].purchases = 10
       /\ c.rollingWindows.w7d[11].purchases = 0
       /\ c.rollingWindows.w30d[11].purchases = 10

AsOfQuantity(inv, v, t) ==
  LET ups == {r \in inv : r.variantId = v /\ r.updatedAt <= t}
  IN IF ups = {} THEN 0
     ELSE (CHOOSE r \in ups : \A o \in ups : o.updatedAt <= r.updatedAt).quantity

(* C3: on every calendar date the entity's inventory is the sum, over the    *)
(* entity's variants, of each variant's most recent update at or before the  *)
(* date (0 if none); updates of other variants contribute nothing.           *)
C3_InventoryIsSumOfAsOf ==
  \A k \in DOMAIN calls :
    LET c == calls[k]
    IN \A i \in DOMAIN c.dateIndex :
         c.inventoryByDate[i] =
           SumFn([v \in c.variantIds |->
                    AsOfQuantity(loaded.inventory, v, Midnight(c.dateIndex[i]))],
                 c.variantIds)

C3_Witness ==
  \E k \in DOMAIN calls :
    LET c == calls[k]
    IN /\ Cardinality({r.variantId : r \in {x \in loaded.inventory :
                                               x.variantId \in c.variantIds}}) = 2
       /\ \E r \in loaded.inventory : r.variantId \notin c.variantIds
       /\ \E i, j \in DOMAIN c.dateIndex :
            c.inventoryByDate[i] = 40 /\ c.inventoryByDate[j] = 140

DailyPurchases(stats, p, d) ==
  LET sel == {r \in stats : r.productId = p /\ r.date = d}
  IN SumFn([r \in sel |-> r.purchases], sel)

RECURSIVE ForwardSum(_, _, _, _)
ForwardSum(stats, p, d, h) ==
  IF h = 0 THEN 0 ELSE DailyPurchases(stats, p, d + h) + ForwardSum(stats, p, d, h - 1)

CallOf(p) == calls[CHOOSE k \in DOMAIN calls : calls[k].productId = p]

InventoryAt(p, d) ==
  LET c == CallOf(p) IN c.inventoryByDate[d - c.dateIndex[1] + 1]

(* C4: for every row, futureSales14d is the sum of the product's purchases   *)
(* on the days D+1..D+14 (day D and earlier days excluded), and stockout14d  *)
(* is 1 exactly when futureSales14d exceeds the inventory at D.              *)
C4_LabelIsForwardSum ==
  \A j \in DOMAIN allRows :
    LET row == allRows[j]
    IN /\ row.futureSales14d =
            ForwardSum(loaded.productStats, row.productId, row.snapshotDate, 14)
       /\ row.inventoryQty = InventoryAt(row.productId, row.snapshotDate)
       /\ (row.stockout14d = 1) <=> (row.futureSales14d > row.inventoryQty)
       /\ row.stockout14d \in {0, 1}

(* purchases on the snapshot date itself and after D+14 are in the data and  *)
(* are not counted; both label values occur                                  *)
C4_Witness ==
  \E i, j \in DOMAIN allRows :
    LET r1 == allRows[i]
        r2 == allRows[j]
    IN /\ r1.productId = r2.productId
       /\ r1.stockout14d = 1 /\ r1.futureSales14d = 10
       /\ DailyPurchases(loaded.productStats, r1.productId,
                         r1.snapshotDate + labelHorizonDays + 1) = 2
       /\ r2.stockout14d = 0 /\ r2.futureSales14d = 2
       /\ DailyPurchases(loaded.productStats, r2.productId, r2.snapshotDate) = 10

(* C8: along the calendar the running count never decreases; on a date with  *)
(* no new rating count and mean are those of the previous date; on every     *)
(* date before the product's first rating the count is 0 and the mean 0.0.   *)
C8_CumulativeMonotone ==
  \A k \in DOMAIN calls :
    LET c == calls[k]
        revs == {r \in loaded.reviews : r.productId = c.productId}
    IN \A i \in DOMAIN c.dateIndex :
         /\ i > 1 => c.reviewsCount[i] >= c.reviewsCount[i - 1]
         /\ (i > 1 /\ ~ \E r \in revs : DateOf(r.createdAt) = c.dateIndex[i])
              => /\ c.reviewsCount[i] = c.reviewsCount[i - 1]
                 /\ c.reviewsAvg[i] = c.reviewsAvg[i - 1]
         /\ (~ \E r \in revs : DateOf(r.createdAt) <= c.dateIndex[i])
              => /\ c.reviewsCount[i] = 0
                 /\ c.reviewsAvg[i] = <<0, 1>>

C8_Witness ==
  \E k \in DOMAIN calls :
    LET c == calls[k]
        n == Len(c.dateIndex)
    IN /\ c.reviewsCount[1] = 0 /\ c.reviewsAvg[1] = <<0, 1>>
       /\ \E i \in 2..(n - 1) :
            /\ c.reviewsCount[i - 1] = 0
            /\ c.reviewsCount[i] = 1
            /\ c.reviewsCount[i + 1] = 1
            /\ c.reviewsAvg[i + 1] = c.reviewsAvg[i]
       /\ c.reviewsCount[n] = 2

DayAsOfQuantity(inv, v, d) ==
  LET ups == {r \in inv : r.variantId = v /\ DateOf(r.updatedAt) <= d}
  IN IF ups = {} THEN 0
     ELSE (CHOOSE r \in ups : \A o \in ups : o.updatedAt <= r.updatedAt).quantity

(* C2: for a product whose updates all belong to one variant, the inventory  *)
(* is 0 on every calendar date before the date of the earliest update, is    *)
(* the update's quantity on the calendar date of an update (whatever its     *)
(* time of day) and is carried forward until a later update.                 *)
C2_QuantityOnUpdateDate ==
  \A k \in DOMAIN calls :
    LET c == calls[k]
        own == {r \in loaded.inventory : r.variantId \in c.variantIds}
    IN \A v \in c.variantIds :
         ({r.variantId : r \in own} = {v})
           => \A i \in DOMAIN c.dateIndex :
                c.inventoryByDate[i] = DayAsOfQuantity(own, v, c.dateIndex[i])

FeatureColumns ==
  {"sales7d", "sales14d", "sales30d", "salesRatio7To30", "views7d", "views30d",
   "addToCarts7d", "viewToPurchase7d", "avgRating", "ratingCount", "inventoryQty",
   "daysSinceRestock", "storeViews7d", "storePurchases7d"}

Features(row) == [f \in FeatureColumns |-> row[f]]

TruncateAfter(T, d) ==
  [T EXCEPT !.productStats = {r \in @ : r.date <= d},
            !.storeStats = {r \in @ : r.date <= d},
            !.inventory = {r \in @ : DateOf(r.updatedAt) <= d},
            !.reviews = {r \in @ : DateOf(r.createdAt) <= d}]

RowWithout(T, row) ==
  LET c == _buildProductFeatures(row.productId, row.storeId, snapshotDates,
                                 T.productStats, T.storeStats, T.variants,
                                 T.inventory, T.reviews).value
  IN c.rows[CHOOSE n \in DOMAIN c.rows : c.rows[n].snapshotDate = row.snapshotDate]

(* C5: every non-label column of the row for snapshot date D is the same     *)
(* when all input records dated after D are removed.                         *)
C5_NoLookahead ==
  \A j \in DOMAIN allRows :
    LET row == allRows[j]
    IN Features(row) = Features(RowWithout(TruncateAfter(loaded, row.snapshotDate), row))

(* C6: a row whose forward window (D, D+14] extends beyond the last loaded   *)
(* date is not emitted unless it carries a truncated-window mark.            *)
C6_TruncatedWindowMarked ==
  \A j \in DOMAIN csv :
    LET row == csv[j]
    IN (row.snapshotDate + labelHorizonDays > endDate)
         => ("truncatedWindow" \in DOMAIN row /\ row["truncatedWindow"] = TRUE)

(* C7: on every calendar date the running count is the number of the         *)
(* product's rating events, among all those supplied, dated on or before     *)
(* the date, and the running mean is the mean rating of those events.        *)
C7_CumulativeOverAllInput ==
  \A k \in DOMAIN calls :
    LET c == calls[k]
    IN \A i \in DOMAIN c.dateIndex :
         LET upto == {r \in loaded.reviews :
                        r.productId = c.productId /\ DateOf(r.createdAt) <= c.dateIndex[i]}
             total == SumFn([r \in upto |-> r.rating], upto)
         IN /\ c.reviewsCount[i] = Cardinality(upto)
            /\ upto # {} =>
                 c.reviewsAvg[i][1] * Cardinality(upto) = total * c.reviewsAvg[i][2]

(* C9: daysSinceRestock is the number of days from the product's most recent *)
(* inventory update at or before D to D, and 365 exactly when there is none. *)
C9_DaysSinceLastUpdateAsOf ==
  \A j \in DOMAIN allRows :
    LET row == allRows[j]
        c == CallOf(row.productId)
        ups == {r \in loaded.inventory :
                  r.variantId \in c.variantIds /\ r.updatedAt <= Midnight(row.snapshotDate)}
    IN row.daysSinceRestock =
         IF ups = {} THEN defaultDaysSinceRestock
         ELSE row.snapshotDate - DateOf(MaxOf({r.updatedAt : r \in ups}))

(* C10: every reconstructed inventory value and every inventoryQty of a row  *)
(* is >= 0.                                                                  *)
C10_InventoryNonNegative ==
  /\ \A k \in DOMAIN calls :
       \A i \in DOMAIN calls[k].inventoryByDate : calls[k].inventoryByDate[i] >= 0
  /\ \A j \in DOMAIN allRows : allRows[j].inventoryQty >= 0

ProcessedProducts == {loaded.products[i].id : i \in 1..(prodIdx - 1)}
SkippedProducts == {skipped[i] : i \in DOMAIN skipped}

(* C11: the table holds exactly one row for each pair (product, snapshot     *)
(* date) of a processed, non-skipped product and a date of [start, end]: no  *)
(* row of a lead-in date, of a skipped product, no duplicate, none missing,  *)
(* so (non-skipped products) x (snapshot dates) rows; the written table is   *)
(* that list of rows.                                                        *)
C11_OneRowPerEntityAndDate ==
  LET kept == ProcessedProducts \ SkippedProducts
  IN /\ \A j \in DOMAIN allRows :
          /\ allRows[j].productId \in kept
          /\ allRows[j].snapshotDate \in startDate..endDate
     /\ \A p \in kept : \A d \in startDate..endDate :
          Cardinality({j \in DOMAIN allRows :
                         allRows[j].productId = p /\ allRows[j].snapshotDate = d}) = 1
     /\ Len(allRows) = Cardinality(kept) * NumSnapshots
     /\ (pc = "done" /\ loaded.products # <<>>) => csv = allRows

(* one product was skipped, the other one has all its rows in the table *)
C11_Witness ==
  /\ pc = "done"
  /\ Len(skipped) = 1
  /\ Len(csv) = NumSnapshots
  /\ csv[1].snapshotDate = startDate
  /\ csv[NumSnapshots].snapshotDate = endDate

RowDate(row) == IF "snapshotDate" \in DOMAIN row THEN row.snapshotDate ELSE row.date

EntityDateKeyLeq(r1, r2) ==
  LET k1 == <<StrRank(r1.productId), StrRank(r1.storeId), RowDate(r1)>>
      k2 == <<StrRank(r2.productId), StrRank(r2.storeId), RowDate(r2)>>
  IN \/ k1[1] < k2[1]
     \/ k1[1] = k2[1] /\ k1[2] < k2[2]
     \/ k1[1] = k2[1] /\ k1[2] = k2[2] /\ k1[3] <= k2[3]

(* C12: in the table written by the file exporter, the (productId, storeId,  *)
(* snapshot date) key of every row is not greater than the key of the next   *)
(* row.                                                                      *)
C12_OutputSortedByEntityAndDate ==
  \A j \in 1..(Len(csv) - 1) : EntityDateKeyLeq(csv[j], csv[j + 1])

BatchFailed(b) == futures[b].state = "done" /\ futures[b].result.raised # ""

RECURSIVE MergeInSubmissionOrder(_)
MergeInSubmissionOrder(n) ==
  IF n = 0 THEN <<>>
  ELSE MergeInSubmissionOrder(n - 1) \o
         (IF BatchFailed(n) THEN <<>> ELSE _processBatchStatic(tables.batches[n]).rows)

(* C13: whatever the order in which the batches finish, the collected rows   *)
(* are the rows of the batches that did not fail, in the order in which the  *)
(* batches were submitted, and the written table is a function of these      *)
(* alone.                                                                    *)
C13_CompletionOrderIrrelevant ==
  /\ pc = "pool" => allRows = MergeInSubmissionOrder(futIdx - 1)
  /\ pc = "done" =>
       /\ allRows = MergeInSubmissionOrder(Len(futures))
       /\ csv = IF modelType = "mlp" THEN allRows ELSE sort_values_tft(allRows)

(* three batches finished in the order 2, 1, 3, the last one failed *)
C13_Witness ==
  /\ pc = "done"
  /\ completionOrder = <<2, 1, 3>>
  /\ failedBatches = <<3>>
  /\ csv # <<>>
  /\ \E j \in DOMAIN csv : csv[j].productId = tables.batches[1][1].id
  /\ \E j \in DOMAIN csv : csv[j].productId = tables.batches[2][1].id

BatchEntities(b) == {<<tables.batches[b][k].id, tables.batches[b][k].storeId>> : k \in DOMAIN tables.batches[b]}

RowsOfBatch(rows, b) == SelectSeq(rows, LAMBDA r : <<r.productId, r.storeId>> \in BatchEntities(b))

Collected == 1..(futIdx - 1)

(* C15: once the result of a batch has been taken, a batch that raised has   *)
(* no row of any of its entities in the collected rows or in the written     *)
(* table, every batch that returned has all its rows there, in order, and    *)
(* the run ends only after the result of every batch has been taken.         *)
C15_BatchFailureIsolated ==
  /\ pc \in {"pool", "done"} =>
       \A b \in Collected :
         /\ BatchFailed(b) => RowsOfBatch(allRows, b) = <<>>
         /\ ~BatchFailed(b) =>
              RowsOfBatch(allRows, b) = _processBatchStatic(tables.batches[b]).rows
  /\ (pc = "done" /\ futures # <<>>) =>
       /\ Collected = DOMAIN futures
       /\ \A b \in DOMAIN futures :
            Len(RowsOfBatch(csv, b)) = Len(RowsOfBatch(allRows, b))

(* the first of three batches raised, the two others returned rows and the  *)
(* table was written with the rows of both                                   *)
C15_Witness ==
  /\ pc = "done"
  /\ failedBatches = <<1>>
  /\ Len(futures) = 3
  /\ RowsOfBatch(csv, 1) = <<>>
  /\ RowsOfBatch(csv, 2) # <<>>
  /\ RowsOfBatch(csv, 3) # <<>>

RowsOfEntity(rows, e) == SelectSeq(rows, LAMBDA r : r.productId = e.id /\ r.storeId = e.storeId)

AloneInBatch(e) == _processBatchStatic(<<e>>)

(* C16: in the result of every batch that ran, an entity whose computation   *)
(* raised has no row, every other entity of the batch has exactly the rows   *)
(* it gets when it is processed in a batch of its own, the result holds      *)
(* nothing else, and the batch returns its rows instead of raising.          *)
C16_EntityFailureIsolated ==
  pc \in {"pool", "done"} =>
    \A b \in DOMAIN futures :
      LET batch == tables.batches[b]
          out == _processBatchStatic(batch)
          failed == {out.logged[k] : k \in DOMAIN out.logged}
          ran == futures[b].state = "done" /\ ~BatchFailed(b)
      IN /\ \A k \in DOMAIN batch :
              LET alone == AloneInBatch(batch[k])
              IN /\ (batch[k] \in failed) <=> (alone.logged # <<>>)
                 /\ batch[k] \in failed => RowsOfEntity(out.rows, batch[k]) = <<>>
                 /\ batch[k] \notin failed => RowsOfEntity(out.rows, batch[k]) = alone.rows
         /\ \A j \in DOMAIN out.rows :
              \E k \in DOMAIN batch : \E i \in DOMAIN RowsOfEntity(out.rows, batch[k]) :
                RowsOfEntity(out.rows, batch[k])[i] = out.rows[j]
         /\ ran => futures[b].result = Returned(out.rows)
         /\ (ran /\ b < futIdx) => RowsOfBatch(allRows, b) = out.rows

(* a batch of two entities: the second one raised, the first one has its    *)
(* rows in the written table                                                *)
C16_Witness ==
  /\ pc = "done"
  /\ \E b \in DOMAIN futures :
       LET batch == tables.batches[b]
           out == _processBatchStatic(batch)
       IN /\ Len(batch) = 2
          /\ ~BatchFailed(b)
          /\ out.logged = <<batch[2]>>
          /\ RowsOfEntity(csv, batch[1]) # <<>>
          /\ RowsOfEntity(csv, batch[2]) = <<>>

(* C14: two runs of an export over the same inputs and configuration write   *)
(* the same table.                                                           *)
C14_RunsAgree ==
  \A i, j \in DOMAIN runs : runs[i] = runs[j]

EntityStats(p) == {r \in loaded.productStats : r.productId = p}

EntityCalendar == date_range(calendarStart(snapshotDates), endDate)

(* C17: for every processed product, buildTimeseriesTable returns one row    *)
(* per calendar date, in calendar order, and each measure of the row of date *)
(* d is the sum of that measure over the product's loaded rows dated d (0    *)
(* when there is none).                                                      *)
C17_TimeseriesIsDailySum ==
  \A p \in ProcessedProducts :
    LET stats == EntityStats(p)
        ts == buildTimeseriesTable(stats, EntityCalendar)
    IN /\ ts.raised = ""
       /\ Len(ts.value) = Len(EntityCalendar)
       /\ \A i \in DOMAIN ts.value : \A m \in Measures :
            ts.value[i][m] = SumFn([r \in stats |-> r[m]],
                                   {r \in stats : r.date = EntityCalendar[i]})

CalendarOf(s, e) == date_range(calendarStart(date_range(s, e)), e)

IsCalendarAxis(axis, s, e, p) ==
  /\ axis[1] = s - p
  /\ axis[1] = getDateRangeWithPadding(s, e, p)[1]
  /\ getDateRangeWithPadding(s, e, p)[2] = e
  /\ axis[Len(axis)] = e
  /\ Len(axis) = (e - s) + 1 + p
  /\ \A i \in 1..(Len(axis) - 1) : axis[i + 1] = axis[i] + 1

FullWindow(c, row, field, m, W) ==
  LET pos == row.snapshotDate - c.dateIndex[1] + 1
  IN /\ pos - W + 1 >= 1
     /\ row[field] = RangeSum(c.ts, m, pos - W + 1, pos)

(* C19: every emitted row, the one of the earliest snapshot date included,   *)
(* has at least 29 calendar days before its own calendar position, and its   *)
(* sales7d/14d/30d and views7d/30d are sums over exactly 7/14/30 calendar     *)
(* positions: no window of an emitted row is cut short by the calendar start.*)
C19_FullWindowsOnEmittedRows ==
  \A k \in DOMAIN calls :
    LET c == calls[k]
    IN \A j \in DOMAIN c.rows :
         LET row == c.rows[j]
         IN /\ row.snapshotDate - c.dateIndex[1] >= window30d - 1
            /\ FullWindow(c, row, "sales7d", "purchases", window7d)
            /\ FullWindow(c, row, "sales14d", "purchases", window14d)
            /\ FullWindow(c, row, "sales30d", "purchases", window30d)
            /\ FullWindow(c, row, "views7d", "views", window7d)
            /\ FullWindow(c, row, "views30d", "views", window30d)

(* the row of the earliest snapshot date counts an event dated on the first  *)
(* lead-in day in its 30-day sum and not in its 7-day sum                    *)
C19_Witness ==
  \E k \in DOMAIN calls :
    LET c == calls[k]
    IN /\ c.rows # <<>>
       /\ c.rows[1].snapshotDate = startDate
       /\ c.ts[1].purchases > 0
       /\ c.rows[1].sales30d >= c.ts[1].purchases
       /\ c.rows[1].sales7d < c.rows[1].sales30d

ZeroRatio == <<0, 1>>

AllAggregatesZero(row) ==
  /\ row.sales7d = 0 /\ row.sales14d = 0 /\ row.sales30d = 0
  /\ row.views7d = 0 /\ row.views30d = 0
  /\ row.addToCarts7d = 0
  /\ row.salesRatio7To30 = ZeroRatio
  /\ row.viewToPurchase7d = ZeroRatio
  /\ row.futureSales14d = 0

(* C20: a processed product without any loaded event is not skipped: the     *)
(* table holds exactly one row for it on every snapshot date, and in each of *)
(* them sales7d/14d/30d, views7d/30d, addToCarts7d, both ratios and          *)
(* futureSales14d are zero.                                                  *)
C20_ZeroEventEntityGetsZeroRows ==
  \A p \in ProcessedProducts :
    EntityStats(p) = {} =>
      /\ p \notin SkippedProducts
      /\ \A d \in startDate..endDate :
           /\ Cardinality({j \in DOMAIN allRows :
                             allRows[j].productId = p /\ allRows[j].snapshotDate = d}) = 1
           /\ \A j \in DOMAIN allRows :
                (allRows[j].productId = p /\ allRows[j].snapshotDate = d)
                  => AllAggregatesZero(allRows[j])

MaxWindow(cfg) == Max(cfg.window7d, Max(cfg.window14d, cfg.window30d))

InvalidConfig(cfg) ==
  \/ cfg.window7d <= 0 \/ cfg.window14d <= 0 \/ cfg.window30d <= 0
  \/ cfg.paddingDays < MaxWindow(cfg)

(* C21: under an invalid configuration (a window size <= 0 or paddingDays   *)
(* smaller than the largest window) the run is rejected before any entity   *)
(* is processed: no product was visited, no row computed, nothing written.  *)
C21_InvalidConfigRejected ==
  InvalidConfig(config) =>
    /\ prodIdx = 1
    /\ allRows = <<>>
    /\ csv = <<>>
    /\ pc # "done"

InvalidRange(req, cfg) == req.end < req.start \/ cfg.paddingDays < 0

(* C22: for a range with end < start, or with negative padding, no calendar  *)
(* is produced: the export stops before the list of snapshot dates exists,   *)
(* so it never reaches the product loop, visits no product, skips none,      *)
(* computes no row and does not end with an empty result.                    *)
C22_InvalidRangeRejected ==
  InvalidRange(request, config) =>
    /\ pc = "load"
    /\ prodIdx = 1
    /\ skipped = <<>>
    /\ allRows = <<>>

HasMalformedTimestamp(raw) == \E i \in DOMAIN raw : raw[i].InvoiceDate = NaT

(* C23: a file with a record whose timestamp cannot be parsed does not get   *)
(* past ingestion, and no table handed to the feature computation holds a    *)
(* record with a missing date in place of the unparsable one.                *)
C23_MalformedTimestampRejected ==
  /\ HasMalformedTimestamp(inputFile) => pc = "load"
  /\ \A r \in tables.inventory : r.updatedAt # NaT
  /\ \A r \in tables.reviews : r.createdAt # NaT

ProductRecord(p) == loaded.products[CHOOSE i \in DOMAIN loaded.products : loaded.products[i].id = p]

(* the loaded tables in the shape the batch processor takes them: every     *)
(* product-stats row carries the store of its product                       *)
StatsWithStore == {[productId |-> r.productId, storeId |-> ProductRecord(r.productId).storeId, date |-> r.date, purchases |-> r.purchases, views |-> r.views, addToCarts |-> r.addToCarts] : r \in loaded.productStats}

BatchRowsOf(p) == processBatch(<<ProductRecord(p)>>, snapshotDates, StatsWithStore, loaded.storeStats, loaded.variants, loaded.inventory, loaded.reviews, "mlp").rows

IsGuardedQuotient(x, num, den) ==
  /\ x[2] > 0
  /\ den > 0 => x[1] * den = num * x[2]
  /\ den <= 0 => x[1] = 0

RatiosDefined(row) ==
  /\ IsGuardedQuotient(row.salesRatio7To30, row.sales7d, row.sales30d)
  /\ IsGuardedQuotient(row.viewToPurchase7d, row.sales7d, row.views7d)

(* C24: on every row of the per-row builder and on every row the vectorized *)
(* builder makes from the same tables, salesRatio7To30 is sales7d / sales30d *)
(* when sales30d > 0 and 0 otherwise, viewToPurchase7d is sales7d / views7d  *)
(* when views7d > 0 and 0 otherwise, and neither is a quotient by zero.      *)
C24_RatiosDefined ==
  /\ \A j \in DOMAIN allRows : RatiosDefined(allRows[j])
  /\ pc = "done" =>
       \A p \in ProcessedProducts :
         LET rows == BatchRowsOf(p)
         IN \A j \in DOMAIN rows : RatiosDefined(rows[j])

(* rows with sales30d = 0, rows with views7d = 0 < sales30d, and rows with  *)
(* a proper quotient, from both builders                                     *)
C24_Witness ==
  /\ pc = "done"
  /\ \E j \in DOMAIN csv : csv[j].sales30d = 0 /\ csv[j].salesRatio7To30 = ZeroRatio
  /\ \E j \in DOMAIN csv : csv[j].sales30d > csv[j].sales7d /\ csv[j].sales7d > 0
  /\ \E p \in ProcessedProducts :
       LET rows == BatchRowsOf(p)
       IN \E j \in DOMAIN rows :
            rows[j].sales30d > 0 /\ rows[j].views7d = 0 /\ rows[j].viewToPurchase7d = ZeroRatio

Acks(t) == {k \in DOMAIN channel : channel[k].op = "basic_ack" /\ channel[k].tag = t}

Publishes(t) == {k \in DOMAIN channel : channel[k].op = "basic_publish" /\ channel[k].tag = t}

Handled(t) == t < Len(deliveries) \/ (t = Len(deliveries) /\ mqPc = "idle")

(* C25: every message the callback has finished with was acknowledged        *)
(* exactly once, a message still being handled not yet, and the              *)
(* acknowledgement of a message comes after every attempt to publish its     *)
(* reply.                                                                    *)
C25_AckExactlyOnceAfterReply ==
  \A t \in DOMAIN deliveries :
    /\ Handled(t) => Cardinality(Acks(t)) = 1
    /\ ~Handled(t) => Acks(t) = {}
    /\ \A a \in Acks(t) : \A q \in Publishes(t) : q < a

(* a malformed body and a request whose reply could not be published, both  *)
(* acknowledged                                                              *)
C25_Witness ==
  /\ Len(deliveries) = 2
  /\ mqPc = "idle"
  /\ ~deliveries[1].body.json
  /\ \E k \in Publishes(2) : ~channel[k].sent
  /\ Cardinality(Acks(1)) = 1
  /\ Cardinality(Acks(2)) = 1

LabelColumns == {"futureSales14d", "stockout14d"}

SameValues(r1, r2) ==
  /\ r1.productId = r2.productId
  /\ r1.snapshotDate = r2.snapshotDate
  /\ \A f \in FeatureColumns \cup LabelColumns : r1[f] = r2[f]

ExportedRowsOf(p) == SelectSeq(allRows, LAMBDA r : r.productId = p)

(* C26: for every exported product that has a store, processBatch in mlp     *)
(* mode, given the same tables, returns for every snapshot date a row with   *)
(* the same feature and label values as the row _buildProductFeatures made.  *)
C26_ExportPathsAgree ==
  pc = "done" =>
    \A p \in ProcessedProducts \ SkippedProducts :
      ProductRecord(p).storeId # NoStore =>
        LET db_rows == ExportedRowsOf(p)
            batch_rows == BatchRowsOf(p)
        IN /\ Len(batch_rows) = Len(db_rows)
           /\ \A j \in DOMAIN db_rows : SameValues(db_rows[j], batch_rows[j])

(* the mlp rows the file exporter computes for one entity of a file *)
EntityRowsFromFile(raw, e) ==
  LET df == prepareFrame(raw)
  IN processBatch(<<e>>, fileSnapshotDates(df), fileProductStats(df), fileStoreStats(df), fileVariants(df), fileInventory(df), fileReviews(df), "mlp").rows

(* the file without the records of the same product in other stores *)
WithoutOtherStores(raw, e) == SelectSeq(raw, LAMBDA r : r.StockCode = e.id => r.Country = e.storeId)

EntityStateColumns == {"inventoryQty", "daysSinceRestock", "avgRating", "ratingCount"}

(* C27: in the table of the file exporter, the inventoryQty,                 *)
(* daysSinceRestock and rating statistics of every row of an entity (P, S)   *)
(* are those the exporter computes for (P, S) on the same date when the      *)
(* records of P in other stores are taken out of the file.                   *)
C27_EntityStateFromOwnRecords ==
  (pc = "done" /\ modelType = "mlp") =>
    \A k \in DOMAIN tables.products :
      LET e == tables.products[k]
          own == EntityRowsFromFile(WithoutOtherStores(inputFile, e), e)
      IN \A j \in DOMAIN csv : \A i \in DOMAIN own :
           (csv[j].productId = e.id /\ csv[j].storeId = e.storeId
              /\ csv[j].snapshotDate = own[i].snapshotDate)
             => \A f \in EntityStateColumns : csv[j][f] = own[i][f]

(* the days on which the prepared frame holds a record *)
DataDays == {DateOf(r.date) : r \in {x \in FrameRows(prepareFrame(inputFile)) : x.date # NaT}}

(* the table is ordered by store, then product, then time_idx *)
SortedByStoreProductTime(rows) ==
  \A i \in 1..(Len(rows) - 1) :
    \/ StrRank(rows[i].storeId) < StrRank(rows[i + 1].storeId)
    \/ /\ rows[i].storeId = rows[i + 1].storeId
       /\ \/ StrRank(rows[i].productId) < StrRank(rows[i + 1].productId)
          \/ /\ rows[i].productId = rows[i + 1].productId
             /\ rows[i].time_idx <= rows[i + 1].time_idx

(* C28: in tft mode every entity of the written table that was not skipped  *)
(* has exactly one row per calendar date from the first to the last data    *)
(* date, in date order, with time_idx = days since the global first date    *)
(* (so 0..N-1 without gap or duplicate), and the table is sorted by         *)
(* (storeId, productId, time_idx).                                          *)
C28_TftDailyRows ==
  (pc = "done" /\ modelType = "tft" /\ tables # NoTables) =>
    LET first == MinOf(DataDays)
        N == MaxOf(DataDays) - first + 1
    IN /\ \A k \in DOMAIN tables.products :
            LET own == RowsOfEntity(csv, tables.products[k])
            IN own = <<>> \/ (/\ Len(own) = N
                              /\ \A i \in 1..N : /\ own[i].date = first + i - 1
                                                 /\ own[i].time_idx = i - 1)
       /\ SortedByStoreProductTime(csv)

(* a tft table of several days and two stores that the sort reordered *)
C28_Witness ==
  /\ pc = "done" /\ modelType = "tft" /\ failedBatches = <<>>
  /\ csv # allRows
  /\ \E i, j \in DOMAIN csv : csv[i].storeId # csv[j].storeId
  /\ \E i \in DOMAIN csv : csv[i].time_idx >= 1

(* the sum of measure m over the loaded rows of store s dated in the 7 days *)
(* ending at and including D                                                *)
TrailingStoreSum(s, D, m) == LET S == {r \in loaded.storeStats : r.storeId = s /\ r.date \in (D - window7d + 1)..D} IN SumFn([r \in S |-> r[m]], S)

(* C29: on every row, storeViews7d and storePurchases7d are the sums of the  *)
(* daily views and purchases of the entity's store over the 7 days ending at *)
(* and including the snapshot date, and 0 when the entity has no store.      *)
C29_StoreWindowsAreTrailingSums ==
  \A j \in DOMAIN allRows :
    LET row == allRows[j]
        s == ProductRecord(row.productId).storeId
    IN /\ row.storeViews7d = IF s = NoStore THEN 0 ELSE TrailingStoreSum(s, row.snapshotDate, "views")
       /\ row.storePurchases7d = IF s = NoStore THEN 0 ELSE TrailingStoreSum(s, row.snapshotDate, "purchases")

RECURSIVE Concat(_)
Concat(seqs) == IF seqs = <<>> THEN <<>> ELSE Concat(SubSeq(seqs, 1, Len(seqs) - 1)) \o seqs[Len(seqs)]

(* the batches partition the list: in order, none empty, none above size *)
IsPartition(batches, productList, size) ==
  /\ Concat(batches) = productList
  /\ \A b \in DOMAIN batches : Len(batches[b]) \in 1..size

(* the rows a run without failed batch collects with batches of size bs *)
RowsWithBatchSize(bs) == LET batches == makeBatches(tables.products, bs) IN Concat([b \in DOMAIN batches |-> _processBatchStatic(batches[b]).rows])

RowSet(rows) == {rows[i] : i \in DOMAIN rows}

(* C30: the batches of the run partition the entity list (order kept, each   *)
(* batch of 1..batchSize entities), and so do the batches of every other     *)
(* size; a run in which no batch failed writes the same set of rows as the   *)
(* same run with any other batch size, and the rows of each entity are those *)
(* it gets in a batch of its own.                                            *)
C30_BatchSizeIndependent ==
  (pc \in {"pool", "done"} /\ tables # NoTables) =>
    /\ IsPartition(tables.batches, tables.products, batchSize)
    /\ \A bs \in 1..(MaxBatchSize + 1) : IsPartition(makeBatches(tables.products, bs), tables.products, bs)
    /\ (pc = "done" /\ failedBatches = <<>>) =>
         /\ \A bs \in 1..(MaxBatchSize + 1) : RowSet(RowsWithBatchSize(bs)) = RowSet(csv)
         /\ \A k \in DOMAIN tables.products :
              RowsOfEntity(csv, tables.products[k]) = AloneInBatch(tables.products[k]).rows

(* three entities cut into a batch of two and a batch of one, every entity   *)
(* with rows in the written table                                            *)
C30_Witness ==
  /\ pc = "done" /\ failedBatches = <<>> /\ batchSize = 2
  /\ Len(tables.products) = 3 /\ Len(tables.batches) = 2
  /\ \A k \in DOMAIN tables.products : RowsOfEntity(csv, tables.products[k]) # <<>>

====
